---- MODULE Spec2Model ----
(***************************************************************************)
(* Model of the ECS manager of pyecs (src/src/ecs/ecs.py).                 *)
(*                                                                         *)
(* Python dicts keep insertion order, and the manager iterates the dicts   *)
(* systems, archetypes and components, so each of them is a sequence of    *)
(* <<key, value>> pairs.  The dicts keyed by entity id (a bucket, the      *)
(* components of one type) are functions from entity ids.  A component     *)
(* instance is an object with an identity: <<cid, k>> is the k-th instance *)
(* of the component class whose cid is cid.  A system object is            *)
(* <<sid, k>>, the k-th instance of the system class whose sid is sid.     *)
(***************************************************************************)
EXTENDS Integers, Sequences, FiniteSets, TLC

VARIABLES
    entity_id,   \* EcsManager.__entity_id
    entities,    \* EcsManager.entities
    systems,     \* EcsManager.systems     : dict system -> dict action -> archetype
    archetypes,  \* EcsManager.archetypes  : dict archetype -> dict entity -> tuple
    components,  \* EcsManager.components  : dict cid -> dict entity -> instance
    deltatime,   \* EcsManager._deltatime
    eid,         \* the eid attribute of every component instance that has one
    call,        \* the last call made on the manager, with its outcome
    returned,    \* the ids create_entity has returned so far, oldest first
    pc,          \* where process is: idle, tick, iter or returned
    pos,         \* process: how far the three nested loops of the tick are
    elapsed,     \* process: current_tick_time - last_tick_time
    dt,          \* process: dt
    invoked,     \* the <<system, action>> pairs invoked in the current tick
    continuation,\* UserInputSystem.continuation
    fields,      \* the dataclass fields of the component instances that have any
    started,     \* what the current tick found when it began
    input,       \* the fields of the UserInputSystem object that process reads
    screen,      \* the fields of the Screen object: overlays, tracked entity
    life         \* the fields of the LifeSystem object

vars == <<entity_id, entities, systems, archetypes, components, deltatime, eid,
          call, returned, pc, pos, elapsed, dt, invoked, continuation, fields,
          started, input, screen, life>>

\* the state of the game systems and of the fields of the components
ui == <<input, screen, life>>

game == <<continuation, fields, started, ui>>

\* the local state of process
loop == <<pc, pos, elapsed, dt, invoked>>

\* the state of the manager and of the component objects
manager == <<entity_id, entities, systems, archetypes, components, deltatime, eid>>

\* ---------------------------------------------------------------- bounds
\* create_entity is called at most MaxEntityId times
MaxEntityId == 2

\* ---------------------------------------------------------------- inputs
\* AutoId.component: the cid of a component class is its position among the
\* decorated classes; Transform2D is the first, Collider2D the second
ClassCid(component_class) ==
    CASE component_class = "Transform2D" -> 0
      [] component_class = "Collider2D" -> 1
      [] component_class = "Collision" -> 2
      [] component_class = "Velocity2D" -> 3
      [] component_class = "ScreenElement" -> 4
      [] component_class = "StaleTag" -> 5
      [] component_class = "EdgeHarm" -> 6
      [] component_class = "UserInput" -> 7
      [] component_class = "Score" -> 8
      [] component_class = "Lives" -> 9
      [] component_class = "Lifespan" -> 10
      [] component_class = "PlayerTag" -> 11
      [] component_class = "EnemyTag" -> 12
      [] component_class = "BulletTag" -> 13
\* the cids of the component classes in use
Cids == {ClassCid("Transform2D"), ClassCid("Collider2D")}
\* the component instances callers can pass: two Transform2D objects and one
\* Collider2D object
Instances == {<<ClassCid("Transform2D"), 1>>, <<ClassCid("Transform2D"), 2>>,
              <<ClassCid("Collider2D"), 1>>}
\* entity ids callers can pass: live, destroyed and not yet created ones
EntityIds == 0..(MaxEntityId - 1)
\* the system objects callers can pass: one object of class 0, one of class 1
SystemObjects == {<<0, 1>>, <<1, 1>>}

\* Python's None
None == <<>>

cid(component) == component[1]
sid(system) == system[1]

\* System.actions(): the action table of a system, by its class.  Classes 0
\* and 1 between them share an archetype, declare the same two types in
\* both orders, and declare a one-type archetype.  As in every action table
\* of systems.py, an archetype names at least one component class.  Classes
\* 2, 3 and 4 are Render2DSystem, Collider2DSystem and UserInputSystem with
\* their tables of systems.py, classes 5, 6 and 7 are EdgeHarmSystem,
\* Physics2DSystem and LifeSystem.
actions(system) ==
    CASE sid(system) = 0 ->
            << <<"process_active", <<"Transform2D", "Collider2D">>>>,
               <<"process_stale", <<"Collider2D">>>> >>
      [] sid(system) = 1 ->
            << <<"process_linear", <<"Transform2D", "Collider2D">>>>,
               <<"process_radial", <<"Collider2D", "Transform2D">>>> >>
      [] sid(system) = 2 ->
            << <<"process_active", <<"Transform2D", "ScreenElement">>>>,
               <<"process_stale", <<"StaleTag">>>> >>
      [] sid(system) = 3 ->
            << <<"process", <<"Transform2D", "Collider2D">>>> >>
      [] sid(system) = 4 ->
            << <<"process", <<"Transform2D", "Collider2D", "Velocity2D",
                              "UserInput">>>> >>
      [] sid(system) = 5 ->
            << <<"process", <<"Transform2D", "Collider2D", "EdgeHarm">>>> >>
      [] sid(system) = 6 ->
            << <<"process", <<"Transform2D", "Velocity2D">>>> >>
      [] sid(system) = 7 ->
            << <<"process", <<"Lives">>>> >>

\* an archetype key that forgets the order of the declaration
RECURSIVE SortCids(_)
SortCids(cids) ==
    IF cids = {} THEN <<>>
    ELSE LET least == CHOOSE x \in cids : \A y \in cids : x <= y
         IN  <<least>> \o SortCids(cids \ {least})

flatten_archetype_sorted(archetype) ==
    SortCids({ClassCid(archetype[i]) : i \in DOMAIN archetype})

\* flatten_archetype: the component classes of an archetype to their cids
flatten_archetype(archetype) == [i \in DOMAIN archetype |-> ClassCid(archetype[i])]

\* ------------------------------------------------------- dict operations
\* k in d
DictHas(d, k) == \E i \in DOMAIN d : d[i][1] = k
\* d[k]
DictGet(d, k) == d[CHOOSE i \in DOMAIN d : d[i][1] = k][2]
\* d.keys() as a set
DictKeys(d) == {d[i][1] : i \in DOMAIN d}
\* d.values() as a set
DictValues(d) == {d[i][2] : i \in DOMAIN d}
\* d[k] = v : in place when k is a key, at the end otherwise.  f @@ <<>> is
\* f, evaluated once.
DictSet(d, k, v) ==
    IF DictHas(d, k)
    THEN [i \in DOMAIN d |-> IF d[i][1] = k THEN <<k, v>> ELSE d[i]] @@ <<>>
    ELSE Append(d, <<k, v>>)
\* d.pop(k, None), the dict that is left
DictPop(d, k) == SelectSeq(d, LAMBDA p : p[1] # k)

Range(s) == {s[i] : i \in DOMAIN s}

\* ------------------------------------- operations of entity-keyed dicts
\* m[entity] = v
MapSet(m, entity, v) == (entity :> v) @@ m
\* m.pop(entity), the dict that is left
MapPop(m, entity) == [e \in DOMAIN m \ {entity} |-> m[e]] @@ <<>>

\* the entity holds a component of the type in the component store
Holds(comps, entity, component_type) ==
    /\ DictHas(comps, component_type)
    /\ entity \in DOMAIN DictGet(comps, component_type)

\* bucket.values(), at process line 300 and fetch_archetype line 240.
\* Buckets are kept unordered here, so the rows are listed by ascending
\* entity id.
RECURSIVE Rows(_)
Rows(component_sets) ==
    IF DOMAIN component_sets = {} THEN <<>>
    ELSE LET e == CHOOSE x \in DOMAIN component_sets :
                      \A y \in DOMAIN component_sets : x <= y
         IN  <<component_sets[e]>> \o Rows(MapPop(component_sets, e))

\* ------------------------------------------------------------------ Init
\* UserInputSystem.setup, lines 306-323: no key is down, both pause keys
\* can toggle, nothing is paused
AfterInputSetup ==
    [input_bitmask |-> 0, currently_paused |-> FALSE, pause_initiator |-> "",
     can_toggle_menu_key |-> TRUE, can_toggle_boss_key |-> TRUE]

\* Screen.__init__, platform.py lines 45-59, and run's set_tracked_entity:
\* no overlay is shown
NewScreen(tracked) ==
    [menu_shown |-> FALSE, boss_image_shown |-> FALSE,
     tracked_entity |-> tracked, gameover |-> FALSE]

Init ==
    /\ entity_id = 0
    /\ entities = {}
    /\ systems = <<>>
    /\ archetypes = <<>>
    /\ components = <<>>
    /\ deltatime = 1
    /\ eid = <<>>
    /\ call = [op |-> "init"]
    /\ returned = <<>>
    /\ pc = "idle"
    /\ pos = 0
    /\ elapsed = 0
    /\ dt = 0
    /\ invoked = <<>>
    /\ continuation = "Continue"
    /\ fields = <<>>
    /\ started = [stale |-> {}, continuation |-> "Continue"]
    /\ input = AfterInputSetup
    /\ screen = NewScreen(-1)
    /\ life = [continuation |-> "Continue"]

\* ------------------------------------------------------------ operations
\* a create_entity that hands out the lowest id that is not live
create_entity_reuse ==
    LET entity == CHOOSE e \in 0..entity_id :
                      e \notin entities /\ \A f \in 0..(e - 1) : f \in entities
    IN  /\ Len(returned) < MaxEntityId
        /\ entity_id' = IF entity = entity_id THEN entity_id + 1 ELSE entity_id
        /\ entities' = entities \cup {entity}
        /\ call' = [op |-> "create_entity", ret |-> entity]
        /\ returned' = Append(returned, entity)
        /\ UNCHANGED <<systems, archetypes, components, deltatime, eid, loop, game>>

create_entity ==
    /\ entity_id < MaxEntityId
    /\ entity_id' = entity_id + 1
    /\ entities' = entities \cup {entity_id}
    /\ call' = [op |-> "create_entity", ret |-> entity_id]
    /\ returned' = Append(returned, entity_id)
    /\ UNCHANGED <<systems, archetypes, components, deltatime, eid, loop, game>>

\* register_system, lines 52-61: the bindings of the system and the buckets
\* its archetypes newly need, in the order of its action table
BindActions(system) ==
    LET table == actions(system)
    IN  [i \in DOMAIN table |-> <<table[i][1], flatten_archetype(table[i][2])>>]

\* a NewBuckets that looks at the first action of the table only
NewBucketsFirstAction(archs, actionset) ==
    IF actionset = <<>> \/ DictHas(archs, Head(actionset)[2]) THEN archs
    ELSE DictSet(archs, Head(actionset)[2], <<>>)

RECURSIVE NewBuckets(_, _)
NewBuckets(archs, actionset) ==
    IF actionset = <<>> THEN archs
    ELSE LET archetype == Head(actionset)[2]
         IN  NewBuckets(IF DictHas(archs, archetype) THEN archs
                        ELSE DictSet(archs, archetype, <<>>),
                        Tail(actionset))

\* a register_system without the two membership checks: the bindings are
\* set again and every bucket of the system starts empty again
register_system_reset(system) ==
    /\ systems' = DictSet(systems, system, BindActions(system))
    /\ archetypes' =
          LET bound == DictValues(BindActions(system))
              emptied == [i \in DOMAIN archetypes |->
                            IF archetypes[i][1] \in bound
                            THEN <<archetypes[i][1], <<>>>> ELSE archetypes[i]]
          IN  NewBuckets(emptied, BindActions(system))
    /\ call' = [op |-> "register_system", system |-> system]
    /\ UNCHANGED <<entity_id, entities, components, deltatime, eid, returned, loop, game>>

register_system(system) ==
    /\ IF ~DictHas(systems, system)
       THEN /\ systems' = DictSet(systems, system, BindActions(system))
            /\ archetypes' = NewBuckets(archetypes, BindActions(system))
       ELSE UNCHANGED <<systems, archetypes>>
    /\ call' = [op |-> "register_system", system |-> system]
    /\ UNCHANGED <<entity_id, entities, components, deltatime, eid, returned, loop, game>>

\* a DropStaleBuckets that does not look at the remaining systems
DropStaleBucketsAll(archs, actionset, remaining) ==
    SelectSeq(archs, LAMBDA b : b[1] \notin DictValues(actionset))

\* deregister_system, lines 73-81: an archetype of the removed action set
\* that no remaining system binds is dropped
DropStaleBuckets(archs, actionset, remaining) ==
    SelectSeq(archs, LAMBDA b :
        ~ /\ b[1] \in DictValues(actionset)
          /\ \A i \in DOMAIN remaining : b[1] \notin DictValues(remaining[i][2]))

DeregisterSystem(syss, archs, system) ==
    IF ~DictHas(syss, system) THEN <<syss, archs>>
    ELSE LET actionset == DictGet(syss, system)
             remaining == DictPop(syss, system)
         IN  <<remaining, DropStaleBuckets(archs, actionset, remaining)>>

\* deregister_system, lines 64-81.  \E r \in {e} names the value of e.
deregister_system(system) ==
    \E r \in {DeregisterSystem(systems, archetypes, system)} :
    /\ systems' = r[1]
    /\ archetypes' = r[2]
    /\ call' = [op |-> "deregister_system", system |-> system,
                dropped |-> DictKeys(archetypes) \ DictKeys(r[2])]
    /\ UNCHANGED <<entity_id, entities, components, deltatime, eid, returned, loop, game>>

\* an AddToBuckets that fills the tuple from the last slot to the first
AddToBucketsReversed(archs, comps, entity) ==
    [i \in DOMAIN archs |->
        LET archetype == archs[i][1]
            bucket == archs[i][2]
        IN  IF entity \in DOMAIN bucket THEN archs[i]
            ELSE IF \A idx \in DOMAIN archetype : Holds(comps, entity, archetype[idx])
            THEN <<archetype,
                   MapSet(bucket, entity,
                       [idx \in DOMAIN archetype |->
                           DictGet(comps, archetype[Len(archetype) + 1 - idx])[entity]])>>
            ELSE archs[i]]

\* a loop over the buckets that stops at the first bucket the entity joins
AddToBucketsFirst(archs, comps, entity) ==
    LET joins(i) ==
            /\ entity \notin DOMAIN archs[i][2]
            /\ \A idx \in DOMAIN archs[i][1] : Holds(comps, entity, archs[i][1][idx])
    IN  [i \in DOMAIN archs |->
            IF joins(i) /\ \A j \in 1..(i - 1) : ~joins(j)
            THEN <<archs[i][1],
                   MapSet(archs[i][2], entity,
                       [idx \in DOMAIN archs[i][1] |->
                           DictGet(comps, archs[i][1][idx])[entity]])>>
            ELSE archs[i]]

\* register_component, lines 131-149: the entity joins every bucket it is
\* not in yet and holds every type of
AddToBuckets(archs, comps, entity) ==
    [i \in DOMAIN archs |->
        LET archetype == archs[i][1]
            bucket == archs[i][2]
        IN  IF entity \in DOMAIN bucket THEN archs[i]
            ELSE IF \A idx \in DOMAIN archetype : Holds(comps, entity, archetype[idx])
            THEN <<archetype,
                   MapSet(bucket, entity,
                       [idx \in DOMAIN archetype |->
                           DictGet(comps, archetype[idx])[entity]])>>
            ELSE archs[i]] @@ <<>>

\* a store that drops the other entities' components of the type when it
\* replaces
StoreComponentAlone(comps, entity, component) ==
    IF Holds(comps, entity, cid(component))
    THEN DictSet(comps, cid(component), MapSet(<<>>, entity, component))
    ELSE DictSet(IF DictHas(comps, cid(component)) THEN comps
                 ELSE DictSet(comps, cid(component), <<>>),
                 cid(component),
                 MapSet(IF DictHas(comps, cid(component))
                        THEN DictGet(comps, cid(component)) ELSE <<>>,
                        entity, component))

\* register_component, lines 119-128 and 157: the store after the component
\* type has its dict, the entity's old entry is popped and the new one set
StoreComponent(comps, entity, component) ==
    LET component_type == cid(component)
        comps1 == IF ~DictHas(comps, component_type)
                  THEN DictSet(comps, component_type, <<>>) ELSE comps
        popped == MapPop(DictGet(comps1, component_type), entity)
    IN  DictSet(comps1, component_type, MapSet(popped, entity, component))

\* a pop that loses the old component
OldComponentForgotten(comps, entity, component_type) == None

\* register_component, line 123: what the pop returns
OldComponent(comps, entity, component_type) ==
    IF Holds(comps, entity, component_type)
    THEN DictGet(comps, component_type)[entity]
    ELSE None

\* register_component, line 148: the archetypes whose bucket the entity is
\* added to, as the debug log lists them
Added(archs, comps, entity) ==
    LET after == AddToBuckets(archs, comps, entity)
    IN  {archs[i][1] : i \in {j \in DOMAIN archs :
            entity \in DOMAIN after[j][2] \ DOMAIN archs[j][2]}}

\* a register_component that links the component to the entity before it
\* checks that the entity is live
register_component_link_first(entity, component) ==
    IF entity \notin entities
    THEN /\ eid' = MapSet(eid, component, entity)
         /\ call' = [op |-> "register_component", entity |-> entity,
                     component |-> component, raised |-> TRUE, ret |-> None]
         /\ UNCHANGED <<entity_id, entities, systems, archetypes, components,
                        deltatime, returned, loop, game>>
    ELSE \E old_component \in {OldComponent(components, entity, cid(component))},
            stored \in {StoreComponent(components, entity, component)} :
             /\ eid' = MapSet(eid, component, entity)
             /\ components' = stored
             /\ IF old_component = None
                THEN /\ archetypes' = AddToBuckets(archetypes, stored, entity)
                     /\ call' = [op |-> "register_component", entity |-> entity,
                                 component |-> component, raised |-> FALSE,
                                 ret |-> component,
                                 added |-> Added(archetypes, stored, entity)]
                ELSE /\ UNCHANGED archetypes
                     /\ call' = [op |-> "register_component", entity |-> entity,
                                 component |-> component, raised |-> FALSE,
                                 ret |-> old_component]
             /\ UNCHANGED <<entity_id, entities, systems, deltatime, returned, loop, game>>

register_component(entity, component) ==
    IF entity \notin entities
    THEN /\ call' = [op |-> "register_component", entity |-> entity,
                     component |-> component, raised |-> TRUE, ret |-> None]
         /\ UNCHANGED <<entity_id, entities, systems, archetypes, components,
                        deltatime, eid, returned, loop, game>>
    ELSE \E old_component \in {OldComponent(components, entity, cid(component))},
            stored \in {StoreComponent(components, entity, component)} :
             /\ eid' = MapSet(eid, component, entity)
             /\ components' = stored
             /\ IF old_component = None
                THEN /\ archetypes' = AddToBuckets(archetypes, stored, entity)
                     /\ call' = [op |-> "register_component", entity |-> entity,
                                 component |-> component, raised |-> FALSE,
                                 ret |-> component,
                                 added |-> Added(archetypes, stored, entity)]
                ELSE /\ UNCHANGED archetypes
                     /\ call' = [op |-> "register_component", entity |-> entity,
                                 component |-> component, raised |-> FALSE,
                                 ret |-> old_component]
             /\ UNCHANGED <<entity_id, entities, systems, deltatime, returned, loop, game>>

\* fetch_component, lines 170-176, for a live entity
FetchComponent(comps, entity, component_type) ==
    IF ~DictHas(comps, component_type) THEN None
    ELSE IF entity \notin DOMAIN DictGet(comps, component_type) THEN None
    ELSE DictGet(comps, component_type)[entity]

\* a fetch_component without the check that the entity is live
fetch_component_unchecked(entity, component_type) ==
    /\ call' = [op |-> "fetch_component", entity |-> entity,
                component_type |-> component_type,
                raised |-> FALSE,
                ret |-> FetchComponent(components, entity, component_type)]
    /\ UNCHANGED <<entity_id, entities, systems, archetypes, components,
                   deltatime, eid, returned, loop, game>>

\* a fetch_component that indexes the store without looking first, and so
\* raises for a component type that has no dict yet
fetch_component_keyerror(entity, component_type) ==
    /\ call' = [op |-> "fetch_component", entity |-> entity,
                component_type |-> component_type,
                raised |-> \/ entity \notin entities
                           \/ ~DictHas(components, component_type),
                ret |-> IF entity \notin entities THEN None
                        ELSE FetchComponent(components, entity, component_type)]
    /\ UNCHANGED <<entity_id, entities, systems, archetypes, components,
                   deltatime, eid, returned, loop, game>>

fetch_component(entity, component_type) ==
    /\ call' = [op |-> "fetch_component", entity |-> entity,
                component_type |-> component_type,
                raised |-> entity \notin entities,
                ret |-> IF entity \notin entities THEN None
                        ELSE FetchComponent(components, entity, component_type)]
    /\ UNCHANGED <<entity_id, entities, systems, archetypes, components,
                   deltatime, eid, returned, loop, game>>

\* a PruneBuckets that looks at the first slot of the archetype only
PruneBucketsFirstSlot(archs, entity, component_type) ==
    [i \in DOMAIN archs |->
        IF component_type = archs[i][1][1] /\ entity \in DOMAIN archs[i][2]
        THEN <<archs[i][1], MapPop(archs[i][2], entity)>>
        ELSE archs[i]]

\* deregister_component, lines 194-196
PruneBuckets(archs, entity, component_type) ==
    [i \in DOMAIN archs |->
        IF component_type \in Range(archs[i][1]) /\ entity \in DOMAIN archs[i][2]
        THEN <<archs[i][1], MapPop(archs[i][2], entity)>>
        ELSE archs[i]] @@ <<>>

\* a DeregisterComponent that makes the dict of the component type when the
\* store has none
DeregisterComponentTouchStore(archs, comps, entity, component_type) ==
    IF FetchComponent(comps, entity, component_type) # None
    THEN <<PruneBuckets(archs, entity, component_type),
           DictSet(comps, component_type,
                   MapPop(DictGet(comps, component_type), entity)),
           DictGet(comps, component_type)[entity]>>
    ELSE <<archs,
           IF DictHas(comps, component_type) THEN comps
           ELSE DictSet(comps, component_type, <<>>),
           None>>

\* deregister_component, lines 190-201, for a live entity:
\* <<archetypes, components, returned value>>
DeregisterComponent(archs, comps, entity, component_type) ==
    IF FetchComponent(comps, entity, component_type) # None
    THEN <<PruneBuckets(archs, entity, component_type),
           DictSet(comps, component_type,
                   MapPop(DictGet(comps, component_type), entity)),
           DictGet(comps, component_type)[entity]>>
    ELSE <<archs, comps, None>>

deregister_component(entity, component_type) ==
    IF entity \notin entities
    THEN /\ call' = [op |-> "deregister_component", entity |-> entity,
                     component_type |-> component_type, raised |-> TRUE,
                     ret |-> None]
         /\ UNCHANGED <<entity_id, entities, systems, archetypes, components,
                        deltatime, eid, returned, loop, game>>
    ELSE \E r \in {DeregisterComponent(archetypes, components, entity, component_type)} :
             /\ archetypes' = r[1]
             /\ components' = r[2]
             /\ call' = [op |-> "deregister_component", entity |-> entity,
                         component_type |-> component_type, raised |-> FALSE,
                         ret |-> r[3]]
             /\ UNCHANGED <<entity_id, entities, systems, deltatime, eid, returned, loop, game>>

\* destroy_entity, lines 215-220: the components of the entity, in the order
\* of the component store
RegisteredComponents(comps, entity) ==
    LET held == SelectSeq(comps, LAMBDA p : entity \in DOMAIN p[2])
    IN  [i \in DOMAIN held |-> held[i][2][entity]]

\* a loop that deregisters the first listed component and stops
DeregisterFirst(archs, comps, entity, registered_components) ==
    IF registered_components = <<>> THEN <<archs, comps>>
    ELSE LET r == DeregisterComponent(archs, comps, entity,
                                      cid(Head(registered_components)))
         IN  <<r[1], r[2]>>

\* destroy_entity, lines 223-224: <<archetypes, components>> after every
\* listed component is deregistered
RECURSIVE DeregisterAll(_, _, _, _)
DeregisterAll(archs, comps, entity, registered_components) ==
    IF registered_components = <<>> THEN <<archs, comps>>
    ELSE LET r == DeregisterComponent(archs, comps, entity,
                                      cid(Head(registered_components)))
         IN  DeregisterAll(r[1], r[2], entity, Tail(registered_components))

\* a destroy_entity that stops tracking the entity and leaves its components
DestroyEntityKeepComponents(ents, archs, comps, entity) ==
    <<ents \ {entity}, archs, comps, RegisteredComponents(comps, entity)>>

\* destroy_entity, lines 215-229, for a live entity:
\* <<entities, archetypes, components, returned list>>
DestroyEntity(ents, archs, comps, entity) ==
    LET registered_components == RegisteredComponents(comps, entity)
        r == DeregisterAll(archs, comps, entity, registered_components)
    IN  <<ents \ {entity}, r[1], r[2], registered_components>>

destroy_entity(entity) ==
    IF entity \notin entities
    THEN /\ call' = [op |-> "destroy_entity", entity |-> entity,
                     raised |-> TRUE, ret |-> <<>>]
         /\ UNCHANGED <<entity_id, entities, systems, archetypes, components,
                        deltatime, eid, returned, loop, game>>
    ELSE \E r \in {DestroyEntity(entities, archetypes, components, entity)} :
             /\ entities' = r[1]
             /\ archetypes' = r[2]
             /\ components' = r[3]
             /\ call' = [op |-> "destroy_entity", entity |-> entity,
                         raised |-> FALSE, ret |-> r[4]]
             /\ UNCHANGED <<entity_id, systems, deltatime, eid, returned, loop, game>>

\* cleanup, lines 276-278: <<entities, archetypes, components>> after every
\* pending entity is destroyed.  The pending entities are taken lowest id
\* first; the outcome is the same in every order.
RECURSIVE DestroyEntities(_, _, _, _)
DestroyEntities(ents, archs, comps, pending_entities) ==
    IF pending_entities = {} THEN <<ents, archs, comps>>
    ELSE LET entity == CHOOSE e \in pending_entities :
                           \A f \in pending_entities : e <= f
             r == DestroyEntity(ents, archs, comps, entity)
         IN  DestroyEntities(r[1], r[2], r[3], pending_entities \ {entity})

\* hooks called in the order of the class identifiers of the systems
RECURSIVE HooksBySid(_)
HooksBySid(syss) ==
    IF syss = <<>> THEN <<>>
    ELSE LET i == CHOOSE k \in DOMAIN syss :
                      \A j \in DOMAIN syss : syss[k][1][1] <= syss[j][1][1]
         IN  <<syss[i][1]>> \o HooksBySid(SelectSeq(syss, LAMBDA p : p # syss[i]))

\* setup, line 259, and cleanup, line 268: "for system, _ in
\* manager.systems.items()", the systems whose hook is called, first to last
Hooks(syss) == [i \in DOMAIN syss |-> syss[i][1]]

\* setup, lines 255-261.  The setup hooks of the classes modelled here keep
\* a reference to the screen and leave the manager alone.
setup ==
    /\ call' = [op |-> "setup", hooks |-> Hooks(systems)]
    /\ UNCHANGED <<manager, returned, loop, game>>

\* fetch_archetype, lines 232-240
FetchArchetype(archs, archetype) ==
    IF ~DictHas(archs, archetype) THEN None
    ELSE Rows(DictGet(archs, archetype))

\* the archetypes callers can pass to fetch_archetype: one that both
\* classes declare and one that class 0 alone declares, each of them in the
\* index or not according to the systems registered
ArchetypeInputs ==
    {<<ClassCid("Transform2D"), ClassCid("Collider2D")>>,
     <<ClassCid("Collider2D")>>}

\* a fetch_archetype that makes the bucket it does not find
fetch_archetype_setdefault(archetype) ==
    /\ archetypes' = IF DictHas(archetypes, archetype) THEN archetypes
                     ELSE DictSet(archetypes, archetype, <<>>)
    /\ call' = [op |-> "fetch_archetype", archetype |-> archetype,
                warned |-> FALSE,
                ret |-> FetchArchetype(archetypes', archetype)]
    /\ UNCHANGED <<entity_id, entities, systems, components, deltatime, eid,
                   returned, loop, game>>

fetch_archetype(archetype) ==
    /\ call' = [op |-> "fetch_archetype", archetype |-> archetype,
                warned |-> ~DictHas(archetypes, archetype),
                ret |-> FetchArchetype(archetypes, archetype)]
    /\ UNCHANGED <<manager, returned, loop, game>>

\* a DeregisterSystems that stops after the first pending system
DeregisterSystemsFirst(syss, archs, pending_systems) ==
    IF pending_systems = <<>> THEN <<syss, archs>>
    ELSE DeregisterSystem(syss, archs, Head(pending_systems)[1])

\* cleanup, lines 272-274: <<systems, archetypes>> after every pending
\* system is deregistered
RECURSIVE DeregisterSystems(_, _, _)
DeregisterSystems(syss, archs, pending_systems) ==
    IF pending_systems = <<>> THEN <<syss, archs>>
    ELSE LET r == DeregisterSystem(syss, archs, Head(pending_systems)[1])
         IN  DeregisterSystems(r[1], r[2], Tail(pending_systems))

\* cleanup, lines 264-278.  The cleanup hook of every system class is empty
\* (systems.py, "def cleanup ... pass"): the hooks are called, in the order
\* of the registry, before anything is deregistered.
cleanup ==
    \E hooks \in {Hooks(systems)},
       s \in {DeregisterSystems(systems, archetypes, systems)} :
    \E r \in {DestroyEntities(entities, s[2], components, entities)} :
        /\ systems' = s[1]
        /\ entities' = r[1]
        /\ archetypes' = r[2]
        /\ components' = r[3]
        /\ call' = [op |-> "cleanup", hooks |-> hooks]
        /\ UNCHANGED <<entity_id, deltatime, eid, returned, loop, game>>

Next ==
    \/ create_entity
    \/ \E system \in SystemObjects : register_system(system)
    \/ \E system \in SystemObjects : deregister_system(system)
    \/ \E entity \in EntityIds, component \in Instances :
          register_component(entity, component)
    \/ \E entity \in EntityIds, component_type \in Cids :
          fetch_component(entity, component_type)
    \/ \E entity \in EntityIds, component_type \in Cids :
          deregister_component(entity, component_type)
    \/ \E entity \in EntityIds : destroy_entity(entity)
    \/ \E archetype \in ArchetypeInputs : fetch_archetype(archetype)
    \/ setup
    \/ cleanup

Spec == Init /\ [][Next]_vars

\* ------------------------------------------- the registry of systems alone
\* the system objects callers can pass when a class is instantiated twice:
\* two objects of class 0 and one of class 1.  SystemBase.__hash__ is the
\* sid and SystemBase has no __eq__, so the dict systems tells the two
\* objects of class 0 apart, as tuples with different second parts are.
SystemInstances == SystemObjects \cup {<<0, 2>>}

RegistryNext ==
    \/ \E system \in SystemInstances : register_system(system)
    \/ \E system \in SystemInstances : deregister_system(system)
    \/ \E archetype \in ArchetypeInputs : fetch_archetype(archetype)
    \/ setup
    \/ cleanup

RegistrySpec == Init /\ [][RegistryNext]_vars

\* --------------------------------------------- the persisted game state
\* start_game's defaults, main.py line 277
DefaultScore == 0
DefaultLives == 5

\* Python values read from the state file: None, and the values json.loads
\* gives for a field
PyNone == [t |-> "None"]
FieldValues ==
    {PyNone,
     [t |-> "int", v |-> 0], [t |-> "int", v |-> 3], [t |-> "int", v |-> -2],
     [t |-> "str", s |-> "7"], [t |-> "str", s |-> "x"],
     [t |-> "float", tenths |-> 15], [t |-> "float", tenths |-> -15],
     [t |-> "float", inf |-> TRUE],
     [t |-> "bool", b |-> TRUE],
     [t |-> "list"]}

\* the JSON objects of the file: each of the two fields is absent, null or
\* has a value
Absent == [t |-> "absent"]
JsonObjects ==
    {[t |-> "dict", score |-> a, lives |-> b] :
        a \in FieldValues \cup {Absent}, b \in FieldValues \cup {Absent}}

\* what is at the path: nothing (or a directory), a file that cannot be
\* opened, a file that is not JSON, JSON that is no object, a JSON object
Files ==
    {[t |-> "missing"], [t |-> "unreadable"], [t |-> "malformed"]}
    \cup {[t |-> "json", d |-> d] :
            d \in {PyNone, [t |-> "list"], [t |-> "int", v |-> 3],
                   [t |-> "str", s |-> "7"]} \cup JsonObjects}

\* int(x): <<raised, value>>
ToInt(x) ==
    CASE x.t = "int" -> <<FALSE, x.v>>
      [] x.t = "bool" -> <<FALSE, IF x.b THEN 1 ELSE 0>>
      [] x.t = "str" -> IF x.s = "7" THEN <<FALSE, 7>> ELSE <<TRUE, 0>>
      [] x.t = "float" ->
            IF "inf" \in DOMAIN x THEN <<TRUE, 0>>
            ELSE IF x.tenths >= 0 THEN <<FALSE, x.tenths \div 10>>
            ELSE <<FALSE, -((-x.tenths) \div 10)>>
      [] OTHER -> <<TRUE, 0>>

\* d.get(key, None) of a JSON object
Get(d, key) == IF d[key] = Absent THEN PyNone ELSE d[key]

\* gamestate_is_valid, lines 27-32
gamestate_is_valid(state) ==
    ~ \/ state = PyNone
      \/ Get(state, "score") = PyNone
      \/ Get(state, "lives") = PyNone

\* pack_gamestate, lines 35-39: <<raised, state>>
pack_gamestate(score, lives) ==
    IF score = PyNone \/ lives = PyNone THEN <<FALSE, PyNone>>
    ELSE IF ToInt(score)[1] \/ ToInt(lives)[1] THEN <<TRUE, PyNone>>
    ELSE <<FALSE, [t |-> "dict",
                   score |-> [t |-> "int", v |-> ToInt(score)[2]],
                   lives |-> [t |-> "int", v |-> ToInt(lives)[2]]]>>

\* load_gamestate, lines 47-54, the body of the try: <<raised, state>>
ReadState(file) ==
    IF file.t \in {"unreadable", "malformed"} THEN <<TRUE, PyNone>>
    ELSE IF file.d.t # "dict" THEN <<TRUE, PyNone>>
    ELSE pack_gamestate(Get(file.d, "score"), Get(file.d, "lives"))

\* a load_gamestate without the except clause
load_gamestate_uncaught(file) ==
    IF file.t = "missing" THEN <<FALSE, PyNone>> ELSE ReadState(file)

\* load_gamestate, lines 42-59: <<raised, state>>
load_gamestate(file) ==
    IF file.t = "missing" THEN <<FALSE, PyNone>>
    ELSE IF ReadState(file)[1] THEN <<FALSE, PyNone>>
    ELSE ReadState(file)

\* load_game, main.py lines 327-333, with the file found at STATE_FPATH
load_game(file) ==
    LET loaded == load_gamestate(file)
        state == loaded[2]
    IN  /\ call' = [op |-> "load_game", file |-> file, raised |-> loaded[1],
                    state |-> state,
                    start_game |->
                        IF loaded[1] THEN <<>>
                        ELSE IF gamestate_is_valid(state)
                        THEN <<state.score.v, state.lives.v>>
                        ELSE <<DefaultScore, DefaultLives>>]
        /\ UNCHANGED <<manager, returned, loop, game>>

LoadNext == \E file \in Files : load_game(file)

LoadSpec == Init /\ [][LoadNext]_vars

\* ------------------------------------------------- the high-score table
\* start_game, line 288: the table that is saved has at most this many rows
HighscoreCap == 10
\* the longest table load_scores reads here
MaxLoaded == 10

\* the names of the players: those of a loaded table of n rows are 1..n,
\* and MaxLoaded + 1 is a name no loaded table holds
Names == 1..(MaxLoaded + 1)

\* the tables load_scores returns, lines 239-251: dicts from name to score,
\* in the order of the lines of the file
LoadedTables ==
    UNION {[1..n -> {1, 2}] : n \in 0..MaxLoaded}

\* the dict of a loaded table: row i is <<name i, score>>
AsDict(table) == [i \in DOMAIN table |-> <<i, table[i]>>]

\* scores.get(name, 0), line 285
GetOrZero(scores, name) == IF DictHas(scores, name) THEN DictGet(scores, name) ELSE 0

\* max(a, b) of two integers
Max2(a, b) == IF a >= b THEN a ELSE b

\* start_game, line 285: scores[name] = max(score, scores.get(name, 0))
MergeResult(scores, name, score) ==
    DictSet(scores, name, Max2(score, GetOrZero(scores, name)))

\* a choice that takes the first name of the table
FirstName(scores) == scores[1][1]

\* start_game, lines 289-290: max(scores.items(), key=keyfunc)[0], the
\* first of the names with the highest score
HighestScoring(scores) ==
    scores[CHOOSE i \in DOMAIN scores :
               /\ \A j \in DOMAIN scores : scores[j][2] <= scores[i][2]
               /\ \A j \in 1..(i - 1) : scores[j][2] < scores[i][2]][1]

\* start_game, lines 288-292: the loop that moves the highest-scoring row
\* of scores to highscores, rounds times
RECURSIVE MoveHighest(_, _, _)
MoveHighest(scores, highscores, rounds) ==
    IF rounds = 0 THEN highscores
    ELSE LET highest_scoring == HighestScoring(scores)
         IN  MoveHighest(DictPop(scores, highest_scoring),
                         DictSet(highscores, highest_scoring,
                                 DictGet(scores, highest_scoring)),
                         rounds - 1)

\* start_game, lines 287-292
Highscores(scores) ==
    MoveHighest(scores, <<>>,
                IF Len(scores) < HighscoreCap THEN Len(scores) ELSE HighscoreCap)

\* start_game, lines 283-294, with the table load_scores returned and the
\* name and score run returned; save_scores writes highscores row by row.
\* The result depends on nothing but the three, so one game is followed.
start_game(loaded, name, score) ==
    /\ call.op = "init"
    /\ call' = [op |-> "start_game", loaded |-> loaded, name |-> name,
                score |-> score,
                saved |-> Highscores(MergeResult(loaded, name, score))]
    /\ UNCHANGED <<manager, returned, loop, game>>

ScoresNext ==
    \E table \in LoadedTables, name \in {1, MaxLoaded + 1}, score \in {0, 1, 3} :
        start_game(AsDict(table), name, score)

ScoresSpec == Init /\ [][ScoresNext]_vars

\* ---------------------------------------------------------- frame loop
\* wall-clock seconds between two ticks are at most MaxElapsed
MaxElapsed == 1

\* EcsContinuation
Stop == "Stop"
Continue == "Continue"

\* register_system, lines 52-61, on given dicts: <<systems, archetypes>>
RegisterSystem(syss, archs, system) ==
    IF DictHas(syss, system) THEN <<syss, archs>>
    ELSE <<DictSet(syss, system, BindActions(system)),
           NewBuckets(archs, BindActions(system))>>

RECURSIVE RegisterSystems(_, _, _)
RegisterSystems(syss, archs, order) ==
    IF order = <<>> THEN <<syss, archs>>
    ELSE LET r == RegisterSystem(syss, archs, Head(order))
         IN  RegisterSystems(r[1], r[2], Tail(order))

\* register_component, lines 111-158, for a live entity, on given dicts:
\* <<archetypes, components, eid>>
RegisterComponent(archs, comps, eids, entity, component) ==
    LET stored == StoreComponent(comps, entity, component)
    IN  <<IF OldComponent(comps, entity, cid(component)) = None
          THEN AddToBuckets(archs, stored, entity) ELSE archs,
          stored,
          MapSet(eids, component, entity)>>

RECURSIVE RegisterComponents(_, _, _, _)
RegisterComponents(archs, comps, eids, regs) ==
    IF regs = <<>> THEN <<archs, comps, eids>>
    ELSE LET r == RegisterComponent(archs, comps, eids, Head(regs)[1], Head(regs)[2])
             \* r[1] @@ <<>> is r[1], evaluated once
             archs1 == r[1] @@ <<>>
             comps1 == r[2] @@ <<>>
         IN  \* the lengths are taken to have the dicts evaluated before the
             \* next registration
             IF Len(archs1) + Len(comps1) + Cardinality(DOMAIN r[3]) >= 0
             THEN RegisterComponents(archs1, comps1, r[3], Tail(regs))
             ELSE <<archs1, comps1, r[3]>>

\* the orders in which the caller of process registered its systems
SystemOrders ==
    {<<>>, << <<0, 1>>, <<1, 1>> >>, << <<1, 1>>, <<0, 1>> >>}

\* the components the caller of process registered: any of these, in this
\* order, after the systems
ComponentSetups ==
    LET all == << <<0, <<0, 1>>>>, <<0, <<1, 1>>>>, <<1, <<0, 2>>>> >>
    IN  {SelectSeq(all, LAMBDA r : r \in chosen) : chosen \in SUBSET Range(all)}

\* the state in which process is called: the caller has registered its
\* systems, created every entity and registered components
LoopInit ==
    \E order \in SystemOrders, regs \in ComponentSetups :
        LET s == RegisterSystems(<<>>, <<>>, order)
            c == RegisterComponents(s[2], <<>>, <<>>, regs)
        IN  /\ systems = s[1]
            /\ archetypes = c[1]
            /\ components = c[2]
            /\ eid = c[3]
            /\ entity_id = MaxEntityId
            /\ entities = EntityIds
            /\ returned = [i \in 1..MaxEntityId |-> i - 1]
            /\ deltatime = 1
            /\ call = [op |-> "init"]
            /\ pc = "idle"
            /\ pos = 0
            /\ elapsed = 0
            /\ dt = 0
            /\ invoked = <<>>
            /\ continuation = "Continue"
            /\ fields = <<>>
            /\ started = [stale |-> {}, continuation |-> "Continue"]
            /\ input = AfterInputSetup
            /\ screen = NewScreen(-1)
            /\ life = [continuation |-> "Continue"]

\* process, lines 285-289: the call, the check for systems and the first
\* reading of the clock
\* a process without the check for registered systems
process_call_unchecked ==
    /\ pc = "idle"
    /\ pc' = "tick"
    /\ call' = [op |-> "process", warned |-> FALSE]
    /\ UNCHANGED <<manager, returned, pos, elapsed, dt, invoked, game>>

process_call ==
    /\ pc = "idle"
    /\ IF Len(systems) = 0
       THEN /\ pc' = "returned"
            /\ call' = [op |-> "process", warned |-> TRUE]
       ELSE /\ pc' = "tick"
            /\ call' = [op |-> "process", warned |-> FALSE]
    /\ UNCHANGED <<manager, returned, pos, elapsed, dt, invoked, game>>

\* a dt that forgets the time-scale factor
TickDtUnscaled(seconds, scale) == seconds

\* process, line 292
TickDt(seconds, scale) == seconds * scale

\* what a tick finds when it begins: the live entities that hold a StaleTag
\* and the continuation of the input system
TickSnapshot ==
    [stale |-> {e \in entities : Holds(components, e, ClassCid("StaleTag"))},
     continuation |-> continuation]

\* process, lines 291-292: a tick begins
tick_start ==
    /\ pc = "tick"
    /\ \E seconds \in 0..MaxElapsed :
          /\ elapsed' = seconds
          /\ dt' = TickDt(seconds, deltatime)
    /\ pos' = 1
    /\ invoked' = <<>>
    /\ pc' = "iter"
    /\ started' = TickSnapshot
    /\ UNCHANGED <<manager, call, returned, continuation, fields, ui>>

\* the order of loops nested with the systems outside the archetypes
TripleBeforeBySystem(a, b) ==
    \/ a[2] < b[2]
    \/ a[2] = b[2] /\ a[1] < b[1]
    \/ a[2] = b[2] /\ a[1] = b[1] /\ a[3] <= b[3]

\* the triples <<archetype index, system index, action index>> in the order
\* of the three nested loops
TripleBefore(a, b) ==
    \/ a[1] < b[1]
    \/ a[1] = b[1] /\ a[2] < b[2]
    \/ a[1] = b[1] /\ a[2] = b[2] /\ a[3] <= b[3]

RECURSIVE InLoopOrder(_)
InLoopOrder(triples) ==
    IF triples = {} THEN <<>>
    ELSE LET first == CHOOSE a \in triples : \A b \in triples : TripleBefore(a, b)
         IN  <<first>> \o InLoopOrder(triples \ {first})

AllTriples(archs, syss) ==
    {t \in (DOMAIN archs) \X (DOMAIN syss) \X (1..2) : t[3] <= Len(syss[t[2]][2])}

\* a loop body without the comparison of the two archetypes
ScheduleUnfiltered(archs, syss) == InLoopOrder(AllTriples(archs, syss))

\* process, lines 294-298: the invocations of one tick, in order: for every
\* archetype, for every system, every action bound to that archetype
Schedule(archs, syss) ==
    InLoopOrder({t \in AllTriples(archs, syss) :
                    archs[t[1]][1] = syss[t[2]][2][t[3]][2]})

\* what the body of an action does to the manager, as the action bodies of
\* systems.py do: nothing, pause, unpause, destroy_entity of a live entity,
\* or register_component and deregister_component of the Collider2D for a
\* live entity
Effects ==
    {[kind |-> "none"], [kind |-> "pause"], [kind |-> "unpause"]}
    \cup {[kind |-> "destroy_entity", entity |-> e] : e \in entities}
    \cup {[kind |-> "deregister_component", entity |-> e,
            component_type |-> ClassCid("Collider2D")] : e \in entities}
    \cup {[kind |-> "register_component", entity |-> e,
            component |-> <<ClassCid("Collider2D"), 1>>] : e \in entities}

\* pause, unpause (lines 247-252) and the manager calls of an action body:
\* <<entities, archetypes, components, eid, deltatime>> afterwards
ApplyEffect(effect) ==
    CASE effect.kind = "pause" ->
            <<entities, archetypes, components, eid, 0>>
      [] effect.kind = "unpause" ->
            <<entities, archetypes, components, eid, 1>>
      [] effect.kind = "destroy_entity" ->
            LET r == DestroyEntity(entities, archetypes, components, effect.entity)
            IN  <<r[1], r[2], r[3], eid, deltatime>>
      [] effect.kind = "deregister_component" ->
            LET r == DeregisterComponent(archetypes, components, effect.entity,
                                         effect.component_type)
            IN  <<entities, r[1], r[2], eid, deltatime>>
      [] effect.kind = "register_component" ->
            LET r == RegisterComponent(archetypes, components, eid, effect.entity,
                                       effect.component)
            IN  <<entities, r[1], r[2], r[3], deltatime>>
      [] OTHER -> <<entities, archetypes, components, eid, deltatime>>

\* a loop that does not look at what the action returned
AfterActionIgnored(ret, position) == <<"iter", position + 1>>

\* process, lines 301-303: <<where the loop is, position>> after an action
\* returned
AfterAction(ret, position) ==
    IF ret = Stop THEN <<"returned", position>>
    ELSE <<"iter", position + 1>>

\* a view of the bucket's values in place of the list: what the action
\* holds once its body has changed the bucket
LiveView(component_sets, component_sets_after) == Rows(component_sets_after)

\* process, line 300: components = list(component_sets.values()), a list of
\* the rows the bucket has before the action runs
Snapshot(component_sets, component_sets_after) == Rows(component_sets)

\* process, lines 294-303: the next invocation of the tick.  The action
\* gets dt, the manager and the rows of the bucket of the archetype the
\* outer loop is at; its body does effect and returns ret.
invoke(effect, ret) ==
    /\ pc = "iter"
    /\ pos <= Len(Schedule(archetypes, systems))
    /\ \E at \in {Schedule(archetypes, systems)[pos]},
          after \in {ApplyEffect(effect)} :
       LET component_sets == archetypes[at[1]][2]
           system == systems[at[2]][1]
           binding == systems[at[2]][2][at[3]]
       IN  /\ call' = [op |-> "action", system |-> system, action |-> binding[1],
                       archetype |-> binding[2], dt |-> dt,
                       components |-> Snapshot(component_sets, after[2][at[1]][2]),
                       effect |-> effect, ret |-> ret]
           /\ invoked' = Append(invoked, <<system, binding[1]>>)
           /\ entities' = after[1]
           /\ archetypes' = after[2]
           /\ components' = after[3]
           /\ eid' = after[4]
           /\ deltatime' = after[5]
           /\ pc' = AfterAction(ret, pos)[1]
           /\ pos' = AfterAction(ret, pos)[2]
    /\ UNCHANGED <<entity_id, systems, returned, elapsed, dt, game>>

\* a loop body that runs once
tick_end_once ==
    /\ pc = "iter"
    /\ pos > Len(Schedule(archetypes, systems))
    /\ pc' = "returned"
    /\ UNCHANGED <<manager, call, returned, pos, elapsed, dt, invoked, game>>

\* process, lines 290 and 305: the three loops are through, the loop goes on
\* with the next tick
tick_end ==
    /\ pc = "iter"
    /\ pos > Len(Schedule(archetypes, systems))
    /\ pc' = "tick"
    /\ UNCHANGED <<manager, call, returned, pos, elapsed, dt, invoked, game>>

LoopNext ==
    \/ process_call
    \/ tick_start
    \/ \E effect \in Effects, ret \in {Continue, Stop} : invoke(effect, ret)
    \/ tick_end

LoopSpec == LoopInit /\ [][LoopNext]_vars

\* ------------------------------------------------- the game's systems
\* the system objects main.run registers, of the classes 2, 3 and 4
Render2DSystem == <<2, 1>>
Collider2DSystem == <<3, 1>>
UserInputSystem == <<4, 1>>

\* the orders in which the three systems are registered: that of main.run
\* (lines 55-59) and two others
GameSystemOrders ==
    {<<Render2DSystem, Collider2DSystem, UserInputSystem>>,
     <<Collider2DSystem, Render2DSystem, UserInputSystem>>,
     <<UserInputSystem, Collider2DSystem, Render2DSystem>>}

\* the k-th instance of a component class
Instance(component_class, k) == <<ClassCid(component_class), k>>

\* the tag and life components an entity is built with
Kinds ==
    [bullet : BOOLEAN, player : BOOLEAN, enemy : BOOLEAN, lives : BOOLEAN]

\* the x coordinates an entity other than the first is placed at: one where
\* its box overlaps that of the first entity and one where it does not
Places == {1, 5}

\* register_component calls that build the entity: a Transform2D and a
\* Collider2D of its own, then the tags and the Lives of its kind, then the
\* Velocity2D and the UserInput if it is steered
Build(entity, kind, steered) ==
    LET k == entity + 1
        opt(present, component_class) ==
            IF present THEN << <<entity, Instance(component_class, k)>> >>
            ELSE <<>>
    IN  << <<entity, Instance("Transform2D", k)>>,
           <<entity, Instance("Collider2D", k)>> >>
        \o opt(kind.bullet, "BulletTag") \o opt(kind.player, "PlayerTag")
        \o opt(kind.enemy, "EnemyTag") \o opt(kind.lives, "Lives")
        \o opt(steered, "Velocity2D") \o opt(steered, "UserInput")

RECURSIVE BuildAll(_, _, _)
BuildAll(ents, kinds, steered) ==
    IF ents = {} THEN <<>>
    ELSE LET e == CHOOSE x \in ents : \A y \in ents : x <= y
         IN  Build(e, kinds[e], e = 0 /\ steered)
             \o BuildAll(ents \ {e}, kinds, steered)

\* the fields the entities are built with: boxes of 2 by 2, the first
\* entity at the origin, one life
BuildFields(ents, places, kinds) ==
    [c \in {Instance("Transform2D", e + 1) : e \in ents}
           \cup {Instance("Collider2D", e + 1) : e \in ents}
           \cup {Instance("Lives", e + 1) : e \in {x \in ents : kinds[x].lives}}
       |-> CASE cid(c) = ClassCid("Transform2D") ->
                   <<IF c[2] = 1 THEN 0 ELSE places[c[2] - 1], 0>>
             [] cid(c) = ClassCid("Collider2D") -> <<2, 2>>
             [] OTHER -> 1]

\* the state in which main.run calls process: the systems are registered,
\* then the entities are created and built, then setup has run
GameInit ==
    \E order \in GameSystemOrders, steered \in BOOLEAN,
       kinds \in [EntityIds -> Kinds], places \in [EntityIds -> Places] :
        LET s == RegisterSystems(<<>>, <<>>, order)
            c == RegisterComponents(s[2], <<>>, <<>>,
                                    BuildAll(EntityIds, kinds, steered))
        IN  /\ systems = s[1]
            /\ archetypes = c[1]
            /\ components = c[2]
            /\ eid = c[3]
            /\ entity_id = MaxEntityId
            /\ entities = EntityIds
            /\ returned = [i \in 1..MaxEntityId |-> i - 1]
            /\ deltatime = 1
            /\ call = [op |-> "setup", hooks |-> Hooks(s[1])]
            /\ pc = "idle"
            /\ pos = 0
            /\ elapsed = 0
            /\ dt = 0
            /\ invoked = <<>>
            /\ continuation = Continue
            /\ fields = BuildFields(EntityIds, places, kinds)
            /\ started = [stale |-> {}, continuation |-> Continue]
            /\ input = AfterInputSetup
            /\ screen = NewScreen(-1)
            /\ life = [continuation |-> Continue]

\* the action the three nested loops of process are at
CurrentAt == Schedule(archetypes, systems)[pos]
CurrentSystem == systems[CurrentAt[2]][1]
CurrentBinding == systems[CurrentAt[2]][2][CurrentAt[3]]
CurrentRows == Rows(archetypes[CurrentAt[1]][2])

\* process, lines 294-303, around the call of the action
Invoked(system_class, action, raised, ret) ==
    /\ call' = [op |-> "action", system |-> CurrentSystem,
                action |-> CurrentBinding[1], archetype |-> CurrentBinding[2],
                dt |-> dt, components |-> CurrentRows, raised |-> raised,
                ret |-> ret]
    /\ invoked' = Append(invoked, <<CurrentSystem, CurrentBinding[1]>>)
    /\ pc' = IF raised THEN "raised" ELSE AfterAction(ret, pos)[1]
    /\ pos' = IF raised THEN pos ELSE AfterAction(ret, pos)[2]

At(system_class, action) ==
    /\ pc = "iter"
    /\ pos <= Len(Schedule(archetypes, systems))
    /\ sid(CurrentSystem) = system_class
    /\ CurrentBinding[1] = action

\* Render2DSystem.process_active, lines 80-95: it moves the screen elements
\* and lets the screen tick, and leaves the manager alone
Render2DSystem_process_active ==
    /\ At(2, "process_active")
    /\ Invoked(2, "process_active",
               screen.tracked_entity # -1 /\ screen.tracked_entity \notin entities,
               Continue)
    /\ UNCHANGED <<manager, returned, elapsed, dt, game>>

\* a purge that takes the tag off the entity and lets the entity live
PurgeEntityUntag(ents, archs, comps, entity) ==
    LET r == DeregisterComponent(archs, comps, entity, ClassCid("StaleTag"))
    IN  <<ents, r[1], r[2]>>

\* Render2DSystem.process_stale, line 103: manager.destroy_entity(entity)
PurgeEntity(ents, archs, comps, entity) ==
    LET r == DestroyEntity(ents, archs, comps, entity)
    IN  <<r[1], r[2], r[3]>>

\* Render2DSystem.process_stale, lines 99-103: every row's entity, tag.eid,
\* is destroyed; fetch_component raises when that entity is not live.
\* <<entities, archetypes, components, raised>>
RECURSIVE PurgeStale(_, _, _, _, _)
PurgeStale(ents, archs, comps, eids, rows) ==
    IF rows = <<>> THEN <<ents, archs, comps, FALSE>>
    ELSE LET entity == eids[Head(rows)[1]]
         IN  IF entity \notin ents THEN <<ents, archs, comps, TRUE>>
             ELSE LET r == PurgeEntity(ents, archs, comps, entity)
                  IN  PurgeStale(r[1], r[2], r[3], eids, Tail(rows))

Render2DSystem_process_stale ==
    /\ At(2, "process_stale")
    /\ \E r \in {PurgeStale(entities, archetypes, components, eid, CurrentRows)} :
           /\ entities' = r[1]
           /\ archetypes' = r[2]
           /\ components' = r[3]
           /\ Invoked(2, "process_stale", r[4], Continue)
    /\ UNCHANGED <<entity_id, systems, deltatime, eid, returned, elapsed, dt,
                   game>>

\* Collider2DSystem.do_intersect, lines 127-134, on the fields of the two
\* transforms and colliders; both sides of each comparison are doubled
do_intersect(transform_a, collider_a, transform_b, collider_b) ==
    /\ 2 * transform_a[1] - collider_a[1] < 2 * transform_b[1] + collider_b[1]
    /\ 2 * transform_a[1] + collider_a[1] > 2 * transform_b[1] - collider_b[1]
    /\ 2 * transform_a[2] - collider_a[2] < 2 * transform_b[2] + collider_b[2]
    /\ 2 * transform_a[2] + collider_a[2] > 2 * transform_b[2] - collider_b[2]

\* a != b for two results of fetch_component of one tag class: the tag
\* classes are dataclasses without fields, so two tags are equal
TagsDiffer(a, b) == (a = None) # (b = None)

\* a collision rule that does not look at the player and enemy tags
TeamsDifferAlways(comps, bullet, other) == TRUE

\* Collider2DSystem.process, lines 164-170
TeamsDiffer(comps, bullet, other) ==
    \/ TagsDiffer(FetchComponent(comps, bullet, ClassCid("PlayerTag")),
                  FetchComponent(comps, other, ClassCid("PlayerTag")))
    \/ TagsDiffer(FetchComponent(comps, bullet, ClassCid("EnemyTag")),
                  FetchComponent(comps, other, ClassCid("EnemyTag")))

\* StaleTag(): an instance no one has registered before
NewStaleTag(eids) ==
    Instance("StaleTag",
             1 + Cardinality({c \in DOMAIN eids : cid(c) = ClassCid("StaleTag")}))

\* Collider2DSystem.process, lines 140-172, for one row a and one row b.  st
\* is <<archetypes, components, eid, fields>>.
CollidePair(st, row_a, row_b) ==
    LET entity_a == st[3][row_a[1]]
        entity_b == st[3][row_b[1]]
        bullet_a == FetchComponent(st[2], entity_a, ClassCid("BulletTag"))
        bullet_b == FetchComponent(st[2], entity_b, ClassCid("BulletTag"))
        bullet == IF bullet_a # None THEN entity_a ELSE entity_b
        other == IF bullet_a # None THEN entity_b ELSE entity_a
        lives == FetchComponent(st[2], other, ClassCid("Lives"))
    IN  IF entity_a = entity_b THEN st
        ELSE IF (bullet_a # None) = (bullet_b # None) THEN st
        ELSE IF ~do_intersect(st[4][row_a[1]], st[4][row_a[2]],
                              st[4][row_b[1]], st[4][row_b[2]]) THEN st
        ELSE IF lives = None THEN st
        ELSE IF ~TeamsDiffer(st[2], bullet, other) THEN st
        ELSE LET r == RegisterComponent(st[1], st[2], st[3], bullet,
                                        NewStaleTag(st[3]))
             IN  <<r[1], r[2], r[3], [st[4] EXCEPT ![lives] = @ - 1]>>

\* the inner loop, over components[idx:]
RECURSIVE CollideRow(_, _, _)
CollideRow(st, row_a, rows_b) ==
    IF rows_b = <<>> THEN st
    ELSE CollideRow(CollidePair(st, row_a, Head(rows_b)), row_a, Tail(rows_b))

\* the outer loop, over enumerate(components)
RECURSIVE Collide(_, _)
Collide(st, rows) ==
    IF rows = <<>> THEN st
    ELSE Collide(CollideRow(st, Head(rows), rows), Tail(rows))

Collider2DSystem_process ==
    /\ At(3, "process")
    /\ \E r \in {Collide(<<archetypes, components, eid, fields>>, CurrentRows)} :
           /\ archetypes' = r[1]
           /\ components' = r[2]
           /\ eid' = r[3]
           /\ fields' = r[4]
           /\ Invoked(3, "process", FALSE, Continue)
    /\ UNCHANGED <<entity_id, entities, systems, deltatime, returned, elapsed,
                   dt, continuation, started, ui>>

\* an input action that returns from inside its loop over the rows
InputReturnInLoop(rows, cont) == IF rows = <<>> THEN Continue ELSE cont

\* UserInputSystem.process, line 462: the action returns self.continuation
InputReturn(rows, cont) == cont

\* a & b, a | b and a ^ b of two non-negative integers
RECURSIVE BitAnd(_, _)
BitAnd(a, b) ==
    IF a = 0 \/ b = 0 THEN 0
    ELSE (a % 2) * (b % 2) + 2 * BitAnd(a \div 2, b \div 2)

RECURSIVE BitOr(_, _)
BitOr(a, b) ==
    IF a = 0 THEN b
    ELSE IF b = 0 THEN a
    ELSE (IF a % 2 = 1 \/ b % 2 = 1 THEN 1 ELSE 0) + 2 * BitOr(a \div 2, b \div 2)

RECURSIVE BitXor(_, _)
BitXor(a, b) ==
    IF a = 0 THEN b
    ELSE IF b = 0 THEN a
    ELSE (IF a % 2 # b % 2 THEN 1 ELSE 0) + 2 * BitXor(a \div 2, b \div 2)

\* UserInputSystem.setup, lines 255-264: self.input_masks
input_masks(event) ==
    CASE event = "left" -> 1
      [] event = "right" -> 2
      [] event = "up" -> 4
      [] event = "down" -> 8
      [] event = "fire_primary" -> 16
      [] event = "fire_secondary" -> 32
      [] event = "menu" -> 64
      [] event = "boss" -> 128

\* reset masks that clear the bit of the event itself
input_reset_masks_own(event) == 255 - input_masks(event)

\* UserInputSystem.setup, lines 267-276: self.input_reset_masks
input_reset_masks(event) ==
    CASE event = "left" -> 253
      [] event = "right" -> 254
      [] event = "up" -> 247
      [] event = "down" -> 251
      [] OTHER -> 255

\* UserInputSystem.setup, lines 279-288: self.controls, the control event
\* of a key
controls(key) ==
    CASE key = "escape" -> "menu"
      [] key = "space" -> "boss"
      [] key = "a" -> "left"
      [] key = "d" -> "right"
      [] key = "w" -> "up"
      [] key = "s" -> "down"
      [] key = "j" -> "fire_primary"
      [] key = "k" -> "fire_secondary"

\* the keys of self.controls
ControlKeys == {"escape", "space", "a", "d", "w", "s", "j", "k"}

\* event.keysym.lower(), for the keysyms an event can name
lower(keysym) ==
    CASE keysym = "Escape" -> "escape"
      [] keysym = "A" -> "a"
      [] OTHER -> keysym

\* handle_key_pressed, lines 483-488: the keysym or its lower case is a key
\* of self.controls; the handler returns when neither is
HasBinding(keysym) == keysym \in ControlKeys \/ lower(keysym) \in ControlKeys

\* handle_key_pressed, lines 483-486: the binding of such a keysym
Binding(keysym) ==
    IF keysym \in ControlKeys THEN controls(keysym) ELSE controls(lower(keysym))

\* UserInputSystem.inverse_bitmask, line 309
inverse_bitmask == 255

\* handle_key_pressed, lines 490-492, on the bitmask
Pressed(bitmask, binding) ==
    BitOr(BitAnd(bitmask, input_reset_masks(binding)), input_masks(binding))

\* handle_key_released, lines 503-504, on the bitmask
Released(bitmask, binding) ==
    BitAnd(bitmask, BitXor(inverse_bitmask, input_masks(binding)))

\* UserInputSystem.handle_key_pressed, lines 480-492; the step of the easter
\* egg code, which process turns into a life count, is left out.  The screen
\* hands out key events, timers and button presses in root.update()
\* (platform.py line 112), which the first action of a tick calls: they
\* happen between two ticks.
handle_key_pressed(keysym) ==
    /\ pc = "tick"
    /\ input' = IF ~HasBinding(keysym) THEN input
                ELSE [input EXCEPT !.input_bitmask = Pressed(@, Binding(keysym))]
    /\ call' = [op |-> "handle_key_pressed", keysym |-> keysym]
    /\ UNCHANGED <<manager, returned, loop, continuation, fields, started,
                   screen, life>>

\* UserInputSystem.handle_key_released, lines 495-504
handle_key_released(keysym) ==
    /\ pc = "tick"
    /\ input' = IF ~HasBinding(keysym) THEN input
                ELSE [input EXCEPT !.input_bitmask = Released(@, Binding(keysym))]
    /\ call' = [op |-> "handle_key_released", keysym |-> keysym]
    /\ UNCHANGED <<manager, returned, loop, continuation, fields, started,
                   screen, life>>

\* UserInputSystem.reset_menu_key, lines 342-343: the callback do_after
\* scheduled when the menu key toggled
reset_menu_key ==
    /\ pc = "tick"
    /\ ~input.can_toggle_menu_key
    /\ input' = [input EXCEPT !.can_toggle_menu_key = TRUE]
    /\ UNCHANGED <<manager, call, returned, loop, continuation, fields, started,
                   screen, life>>

\* UserInputSystem.reset_boss_key, lines 338-339
reset_boss_key ==
    /\ pc = "tick"
    /\ ~input.can_toggle_boss_key
    /\ input' = [input EXCEPT !.can_toggle_boss_key = TRUE]
    /\ UNCHANGED <<manager, call, returned, loop, continuation, fields, started,
                   screen, life>>

\* UserInputSystem.check_mask, lines 354-355
check_mask(in, event) ==
    BitAnd(in.input_bitmask, input_masks(event)) = input_masks(event)

\* a pause key that unpauses whoever paused
PauseKeyAnyInitiator(st, event) ==
    LET in == st[2]
        can_toggle == IF event = "menu" THEN in.can_toggle_menu_key
                      ELSE in.can_toggle_boss_key
    IN  IF ~(check_mask(in, event) /\ can_toggle) THEN st
        ELSE LET paused == ~in.currently_paused
                 in1 == [in EXCEPT !.currently_paused = paused,
                                   !.pause_initiator = IF paused THEN event ELSE @]
                 in2 == IF event = "menu"
                        THEN [in1 EXCEPT !.can_toggle_menu_key = FALSE]
                        ELSE [in1 EXCEPT !.can_toggle_boss_key = FALSE]
             IN  <<IF paused THEN 0 ELSE 1, in2,
                   IF event = "menu"
                   THEN [st[3] EXCEPT !.menu_shown = ~@]
                   ELSE [st[3] EXCEPT !.boss_image_shown = ~@]>>

\* UserInputSystem.process, lines 371-387 for the menu key and 389-405 for
\* the boss key, with pause and unpause (ecs.py lines 247-252) and
\* Screen.toggle_menu and toggle_boss_image (platform.py lines 203-227).
\* st is <<deltatime, input, screen>>.
PauseKey(st, event) ==
    LET in == st[2]
        can_toggle == IF event = "menu" THEN in.can_toggle_menu_key
                      ELSE in.can_toggle_boss_key
        pauses == ~in.currently_paused
        unpauses == in.currently_paused /\ in.pause_initiator = event
        in1 == IF pauses
               THEN [in EXCEPT !.currently_paused = TRUE, !.pause_initiator = event]
               ELSE IF unpauses THEN [in EXCEPT !.currently_paused = FALSE]
               ELSE in
        deltatime1 == IF pauses THEN 0 ELSE IF unpauses THEN 1 ELSE st[1]
    IN  IF ~(check_mask(in, event) /\ can_toggle) THEN st
        ELSE IF in1.pause_initiator # event THEN <<deltatime1, in1, st[3]>>
        ELSE <<deltatime1,
               IF event = "menu" THEN [in1 EXCEPT !.can_toggle_menu_key = FALSE]
               ELSE [in1 EXCEPT !.can_toggle_boss_key = FALSE],
               IF event = "menu" THEN [st[3] EXCEPT !.menu_shown = ~@]
               ELSE [st[3] EXCEPT !.boss_image_shown = ~@]>>

\* UserInputSystem.process, the loop of lines 361-460 over the rows
RECURSIVE InputRows(_, _)
InputRows(st, rows) ==
    IF rows = <<>> THEN st
    ELSE InputRows(PauseKey(PauseKey(st, "menu"), "boss"), Tail(rows))

\* UserInputSystem.process, lines 358-462.  For every row the menu key and
\* the boss key are looked at; the velocity the action writes, the emitter
\* triggers it registers and the easter egg are left out.
UserInputSystem_process ==
    /\ At(4, "process")
    /\ \E r \in {InputRows(<<deltatime, input, screen>>, CurrentRows)} :
           /\ deltatime' = r[1]
           /\ input' = r[2]
           /\ screen' = r[3]
    /\ Invoked(4, "process", FALSE, InputReturn(CurrentRows, continuation))
    /\ UNCHANGED <<entity_id, entities, systems, archetypes, components, eid,
                   returned, elapsed, dt, continuation, fields, started, life>>

\* UserInputSystem.handle_window_closed, lines 507-508, called by the screen
\* when the window is closed or the quit button pressed
handle_window_closed ==
    /\ pc \in {"tick", "iter"}
    /\ continuation' = Stop
    /\ UNCHANGED <<manager, call, returned, loop, fields, started, ui>>

GameNext ==
    \/ process_call
    \/ tick_start
    \/ Render2DSystem_process_active
    \/ Render2DSystem_process_stale
    \/ Collider2DSystem_process
    \/ UserInputSystem_process
    \/ handle_window_closed
    \/ tick_end

GameSpec == GameInit /\ [][GameNext]_vars

\* ------------------------------------------------- the game as run builds it
\* the other system objects of main.run that act on the player and on the
\* enemies, of the classes 5, 6 and 7
EdgeHarmSystem == <<5, 1>>
Physics2DSystem == <<6, 1>>
LifeSystem == <<7, 1>>

\* main.run, lines 55-60: the order in which the systems are registered
RunSystemOrder ==
    <<Render2DSystem, Collider2DSystem, EdgeHarmSystem, Physics2DSystem,
      UserInputSystem, LifeSystem>>

\* main.run, line 67: the player is the first entity created
Player == 0

\* the entities create_enemy has made
Enemies == 1..MaxEntityId

\* main.run, lines 68-82: the components of the player
BuildPlayer ==
    << <<Player, Instance("PlayerTag", 1)>>,
       <<Player, Instance("Transform2D", 1)>>,
       <<Player, Instance("Collider2D", 1)>>,
       <<Player, Instance("Velocity2D", 1)>>,
       <<Player, Instance("UserInput", 1)>>,
       <<Player, Instance("ScreenElement", 1)>>,
       <<Player, Instance("Score", 1)>>,
       <<Player, Instance("Lives", 1)>> >>

\* create_enemy, main.py lines 152-222, for an enemy that does not shoot
BuildEnemy(e) ==
    << <<e, Instance("EnemyTag", e + 1)>>,
       <<e, Instance("Transform2D", e + 1)>>,
       <<e, Instance("Collider2D", e + 1)>>,
       <<e, Instance("Velocity2D", e + 1)>>,
       <<e, Instance("EdgeHarm", e + 1)>>,
       <<e, Instance("ScreenElement", e + 1)>>,
       <<e, Instance("Lives", e + 1)>> >>

RECURSIVE BuildEnemies(_)
BuildEnemies(ents) ==
    IF ents = {} THEN <<>>
    ELSE LET e == CHOOSE x \in ents : \A y \in ents : x <= y
         IN  BuildEnemy(e) \o BuildEnemies(ents \ {e})

\* the y coordinates an enemy is at when the loop is looked at: one step
\* before the bottom edge of its EdgeHarm and past it
EnemyPlaces == {2, 3}

\* the life counts of the player: it is at its last life
PlayerLives == {1}

\* the fields of the components: boxes of 2 by 2, every enemy in a column of
\* its own falling one unit a second, its EdgeHarm aimed at the player with
\* the edge at 3, one life an enemy, no score
RunFields(places, lives) ==
    [c \in {Instance(component_class, e + 1) :
                component_class \in {"Transform2D", "Collider2D", "Velocity2D",
                                     "Lives"},
                e \in {Player} \cup Enemies}
           \cup {Instance("EdgeHarm", e + 1) : e \in Enemies}
           \cup {Instance("Score", 1)}
       |-> CASE cid(c) = ClassCid("Transform2D") ->
                   IF c[2] = 1 THEN <<0, 0>> ELSE <<5 * (c[2] - 1), places[c[2] - 1]>>
             [] cid(c) = ClassCid("Collider2D") -> <<2, 2>>
             [] cid(c) = ClassCid("Velocity2D") ->
                   IF c[2] = 1 THEN <<0, 0>> ELSE <<0, 1>>
             [] cid(c) = ClassCid("EdgeHarm") -> <<Player, 3>>
             [] cid(c) = ClassCid("Lives") -> IF c[2] = 1 THEN lives ELSE 1
             [] OTHER -> 0]

\* the state in which main.run calls process (line 229): the systems are
\* registered, the player is built and tracked by the screen, enemies have
\* been spawned, setup has run
RunInit ==
    \E places \in [Enemies -> EnemyPlaces], lives \in PlayerLives :
        LET s == RegisterSystems(<<>>, <<>>, RunSystemOrder)
            c == RegisterComponents(s[2], <<>>, <<>>,
                                    BuildPlayer \o BuildEnemies(Enemies))
        IN  /\ systems = s[1]
            /\ archetypes = c[1]
            /\ components = c[2]
            /\ eid = c[3]
            /\ entity_id = MaxEntityId + 1
            /\ entities = {Player} \cup Enemies
            /\ returned = <<>>
            /\ deltatime = 1
            /\ call = [op |-> "setup", hooks |-> Hooks(s[1])]
            /\ pc = "idle"
            /\ pos = 0
            /\ elapsed = 0
            /\ dt = 0
            /\ invoked = <<>>
            /\ continuation = Continue
            /\ fields = RunFields(places, lives)
            /\ started = [stale |-> {}, continuation |-> Continue]
            /\ input = AfterInputSetup
            /\ screen = NewScreen(Player)
            /\ life = [continuation |-> Continue]

\* EdgeHarmSystem.process, lines 196-208, for one row.  st holds the
\* archetypes, components, eid and fields and whether fetch_component has
\* raised for an entity that is not live.
EdgeHarmRow(st, row) ==
    LET transform == row[1]
        collider == row[2]
        edge_harm == row[3]
        entity == st.eid[transform]
        dy == st.fields[collider][2] \div 2
        target == st.fields[edge_harm][1]
        target_lives == FetchComponent(st.components, target, ClassCid("Lives"))
        harmed == IF target_lives = None THEN st.fields
                  ELSE [st.fields EXCEPT ![target_lives] = @ - 1]
        r == RegisterComponent(st.archetypes, st.components, st.eid, entity,
                               NewStaleTag(st.eid))
    IN  IF ~(st.fields[edge_harm][2] - dy < st.fields[transform][2]) THEN st
        ELSE IF target \notin entities THEN [st EXCEPT !.raised = TRUE]
        ELSE [archetypes |-> r[1], components |-> r[2], eid |-> r[3],
              fields |-> harmed, raised |-> FALSE]

RECURSIVE EdgeHarmRows(_, _)
EdgeHarmRows(st, rows) ==
    IF rows = <<>> \/ st.raised THEN st
    ELSE EdgeHarmRows(EdgeHarmRow(st, Head(rows)), Tail(rows))

\* EdgeHarmSystem.process, lines 195-210
EdgeHarmSystem_process ==
    /\ At(5, "process")
    /\ \E r \in {EdgeHarmRows([archetypes |-> archetypes, components |-> components,
                              eid |-> eid, fields |-> fields, raised |-> FALSE],
                             CurrentRows)} :
           /\ archetypes' = r.archetypes
           /\ components' = r.components
           /\ eid' = r.eid
           /\ fields' = r.fields
           /\ Invoked(5, "process", r.raised, Continue)
    /\ UNCHANGED <<entity_id, entities, systems, deltatime, returned, elapsed,
                   dt, continuation, started, ui>>

\* Physics2DSystem.process, lines 231-233, on the fields
RECURSIVE Physics2DRows(_, _, _)
Physics2DRows(fs, seconds, rows) ==
    IF rows = <<>> THEN fs
    ELSE LET transform == Head(rows)[1]
             velocity == Head(rows)[2]
         IN  Physics2DRows([fs EXCEPT ![transform] =
                                <<@[1] + fs[velocity][1] * seconds,
                                  @[2] + fs[velocity][2] * seconds>>],
                           seconds, Tail(rows))

\* Physics2DSystem.process, lines 230-235
Physics2DSystem_process ==
    /\ At(6, "process")
    /\ fields' = Physics2DRows(fields, dt, CurrentRows)
    /\ Invoked(6, "process", FALSE, Continue)
    /\ UNCHANGED <<manager, returned, elapsed, dt, continuation, started, ui>>

\* a game over that leaves the time-scale factor alone
GameOverUnpaused(scale) == scale

\* LifeSystem.process, line 545: manager.pause() (ecs.py lines 247-248)
GameOverPaused(scale) == 0

\* LifeSystem.process, lines 535-556, for one row.  st holds the archetypes,
\* components, eid, fields, deltatime and screen, the locals player and
\* score_delta, and whether fetch_component has raised.
LifeRow(st, row) ==
    LET lives == row[1]
        entity == st.eid[lives]
        player_tag == FetchComponent(st.components, entity, ClassCid("PlayerTag"))
        enemy_tag == FetchComponent(st.components, entity, ClassCid("EnemyTag"))
        seen == IF player_tag # None THEN [st EXCEPT !.player = entity] ELSE st
        over == IF player_tag = None THEN seen
                ELSE [seen EXCEPT !.deltatime = GameOverPaused(@),
                                  !.screen.tracked_entity = -1,
                                  !.screen.gameover = TRUE]
        scored == IF enemy_tag = None THEN over
                  ELSE [over EXCEPT !.score_delta = @ + 1]
        r == RegisterComponent(st.archetypes, st.components, st.eid, entity,
                               NewStaleTag(st.eid))
    IN  IF entity \notin entities THEN [st EXCEPT !.raised = TRUE]
        ELSE IF st.fields[lives] > 0 THEN seen
        ELSE [scored EXCEPT !.archetypes = r[1], !.components = r[2],
                            !.eid = r[3]]

RECURSIVE LifeRows(_, _)
LifeRows(st, rows) ==
    IF rows = <<>> \/ st.raised THEN st
    ELSE LifeRows(LifeRow(st, Head(rows)), Tail(rows))

\* LifeSystem.process, lines 558-560: the score of the player, if a row was
\* the player's
LifeScore(st) ==
    LET player_score == FetchComponent(st.components, st.player, ClassCid("Score"))
    IN  IF st.raised \/ st.player = -1 THEN st
        ELSE IF player_score = None THEN [st EXCEPT !.raised = TRUE]
        ELSE [st EXCEPT !.fields[player_score] = @ + st.score_delta]

\* LifeSystem.process, lines 531-562
LifeSystem_process ==
    /\ At(7, "process")
    /\ \E r \in {LifeScore(LifeRows(
                    [archetypes |-> archetypes, components |-> components,
                     eid |-> eid, fields |-> fields, deltatime |-> deltatime,
                     screen |-> screen, player |-> -1, score_delta |-> 0,
                     raised |-> FALSE], CurrentRows))} :
           /\ archetypes' = r.archetypes
           /\ components' = r.components
           /\ eid' = r.eid
           /\ fields' = r.fields
           /\ deltatime' = r.deltatime
           /\ screen' = r.screen
           /\ Invoked(7, "process", r.raised, life.continuation)
    /\ UNCHANGED <<entity_id, entities, systems, returned, elapsed, dt,
                   continuation, started, input, life>>

\* Screen.toggle_gameover, platform.py lines 243-245, and the callback of
\* LifeSystem.process, lines 548-551: the name is submitted in the window
\* the game over has opened
submit ==
    /\ pc = "tick"
    /\ screen.gameover
    /\ life.continuation = Continue
    /\ life' = [life EXCEPT !.continuation = Stop]
    /\ UNCHANGED <<manager, call, returned, loop, continuation, fields, started,
                   input, screen>>

\* the keys of the two pause controls
PauseKeysyms == {"Escape", "space"}

RunNext ==
    \/ process_call
    \/ tick_start
    \/ Render2DSystem_process_active
    \/ Render2DSystem_process_stale
    \/ Collider2DSystem_process
    \/ EdgeHarmSystem_process
    \/ Physics2DSystem_process
    \/ UserInputSystem_process
    \/ LifeSystem_process
    \/ \E keysym \in PauseKeysyms : handle_key_pressed(keysym)
    \/ \E keysym \in PauseKeysyms : handle_key_released(keysym)
    \/ reset_menu_key
    \/ reset_boss_key
    \/ submit
    \/ tick_end

RunSpec == RunInit /\ [][RunNext]_vars

\* the keys an event can name: the eight bound ones, one by its upper case,
\* and one that is not bound
Keysyms == {"Escape", "space", "a", "d", "w", "s", "j", "k", "A", "x"}

KeyNext ==
    \/ process_call
    \/ \E keysym \in Keysyms : handle_key_pressed(keysym)
    \/ \E keysym \in Keysyms : handle_key_released(keysym)

KeySpec == RunInit /\ [][KeyNext]_vars

\* ================================================================ claims
\* the entity holds a component of every type of the archetype
HoldsAll(comps, entity, archetype) ==
    \A idx \in DOMAIN archetype : Holds(comps, entity, archetype[idx])

\* the tuple the component store gives for the entity, in slot order
StoreTuple(comps, entity, archetype) ==
    [idx \in DOMAIN archetype |-> DictGet(comps, archetype[idx])[entity]]

\* C1: for every archetype in the index and every live entity E, E is a key
\* of the bucket if and only if E holds a component of every type of the
\* archetype's tuple.
C1_BucketIffHoldsAll ==
    \A i \in DOMAIN archetypes : \A e \in entities :
        e \in DOMAIN archetypes[i][2]
            <=> HoldsAll(components, e, archetypes[i][1])

\* C2: for every bucket and every entity E in it, slot i of E's tuple is the
\* instance the component store holds for E under the archetype's i-th type.
C2_TupleIsStoreInstance ==
    \A i \in DOMAIN archetypes : \A e \in DOMAIN archetypes[i][2] :
        /\ HoldsAll(components, e, archetypes[i][1])
        /\ archetypes[i][2][e] = StoreTuple(components, e, archetypes[i][1])

\* C3: every id create_entity returns is strictly greater than every id it
\* returned before, whatever destroy_entity and cleanup did in between.
C3_IdsStrictlyIncrease ==
    \A i, j \in DOMAIN returned : i < j => returned[i] < returned[j]

\* the first entity was destroyed and create_entity has just returned a
\* second id, which is live
C3_Witness ==
    /\ call.op = "create_entity"
    /\ Len(returned) = 2
    /\ returned[1] \notin entities
    /\ call.ret \in entities

\* C4: register_component with an entity id that is not live fails with
\* UnknownEntity and changes nothing: live set, store, buckets, systems and
\* the eid of the passed component stay as they were.
C4_RegisterUnknownEntity ==
    [][(call'.op = "register_component" /\ call'.entity \notin entities)
        => (call'.raised /\ UNCHANGED manager)]_vars

\* register_component has just failed for an entity that was destroyed, with
\* a component that still names that entity
C4_Witness ==
    /\ call.op = "register_component"
    /\ call.raised
    /\ call.entity \notin entities
    /\ call.entity < entity_id
    /\ entities # {}
    /\ call.component \in DOMAIN eid
    /\ eid[call.component] # call.entity

\* C5: fetch_component, deregister_component and destroy_entity with an
\* entity id that is not live fail with UnknownEntity and leave the live set,
\* the store and every bucket unchanged.
C5_UnknownEntityFails ==
    [][(/\ call'.op \in {"fetch_component", "deregister_component", "destroy_entity"}
        /\ call'.entity \notin entities)
        => (call'.raised /\ UNCHANGED <<entities, components, archetypes>>)]_vars

\* deregister_component has just failed for an entity that was live earlier,
\* while another entity holds a component of that type in some bucket
C5_Witness ==
    /\ call.op = "deregister_component"
    /\ call.raised
    /\ call.entity < entity_id
    /\ call.entity \notin entities
    /\ \E e \in entities : Holds(components, e, call.component_type)
    /\ \E i \in DOMAIN archetypes : archetypes[i][2] # <<>>

\* C6: destroy_entity on a live entity E removes E from the live set, from
\* the dict of every component type and from every bucket, and returns
\* exactly the instances E held before the call, each once.
C6_DestroyEntity ==
    [][(call'.op = "destroy_entity" /\ call'.entity \in entities)
        => LET E == call'.entity
               held == {t \in DictKeys(components) : Holds(components, E, t)}
           IN  /\ ~call'.raised
               /\ entities' = entities \ {E}
               /\ \A t \in DictKeys(components') : ~Holds(components', E, t)
               /\ \A i \in DOMAIN archetypes' : E \notin DOMAIN archetypes'[i][2]
               /\ Range(call'.ret) = {DictGet(components, t)[E] : t \in held}
               /\ Len(call'.ret) = Cardinality(held)]_vars

\* destroy_entity has just returned two components while another entity
\* stays in a bucket
C6_Witness ==
    /\ call.op = "destroy_entity"
    /\ ~call.raised
    /\ Len(call.ret) = 2
    /\ \E i \in DOMAIN archetypes : archetypes[i][2] # <<>>

\* C7: register_component on a live entity returns the new component when
\* the entity held none of that type and the old one when it did; either
\* way the store then maps (type, entity) to the passed component.
C7_RegisterReturns ==
    [][(call'.op = "register_component" /\ call'.entity \in entities)
        => LET E == call'.entity
               t == cid(call'.component)
           IN  /\ ~call'.raised
               /\ call'.ret = IF Holds(components, E, t)
                              THEN DictGet(components, t)[E]
                              ELSE call'.component
               /\ Holds(components', E, t)
               /\ DictGet(components', t)[E] = call'.component]_vars

\* register_component has just replaced a component by another instance
C7_Witness ==
    /\ call.op = "register_component"
    /\ ~call.raised
    /\ call.ret # call.component
    /\ DictGet(components, cid(call.component))[call.entity] = call.component

\* C8: deregister_component on a live entity E that holds the type removes E
\* from every bucket whose tuple contains the type, removes the component
\* from the store and returns it; the other buckets keep E and its tuple.
C8_DeregisterComponent ==
    [][(/\ call'.op = "deregister_component"
        /\ call'.entity \in entities
        /\ Holds(components, call'.entity, call'.component_type))
        => LET E == call'.entity
               t == call'.component_type
           IN  /\ ~call'.raised
               /\ call'.ret = DictGet(components, t)[E]
               /\ ~Holds(components', E, t)
               /\ DOMAIN archetypes' = DOMAIN archetypes
               /\ \A i \in DOMAIN archetypes :
                     /\ archetypes'[i][1] = archetypes[i][1]
                     /\ IF t \in Range(archetypes[i][1])
                        THEN E \notin DOMAIN archetypes'[i][2]
                        ELSE archetypes'[i][2] = archetypes[i][2]]_vars

\* deregister_component of type 0 has just returned a component and the
\* entity is still in the (1,) bucket, next to a (0, 1) bucket
C8_Witness ==
    /\ call.op = "deregister_component"
    /\ ~call.raised
    /\ call.ret # None
    /\ call.component_type = 0
    /\ DictHas(archetypes, <<0, 1>>)
    /\ DictHas(archetypes, <<1>>)
    /\ call.entity \in DOMAIN DictGet(archetypes, <<1>>)

\* C9: with the archetype's bucket in the index before the components are
\* registered, the registration that completes E's set of types, whichever
\* type it is, puts E in the bucket with the tuple of E's instances in the
\* archetype's slot order.
C9_BucketIndependentOfOrder ==
    [][(/\ call'.op = "register_component"
        /\ call'.entity \in entities
        /\ ~Holds(components, call'.entity, cid(call'.component)))
        => \A i \in DOMAIN archetypes :
              (/\ call'.entity \notin DOMAIN archetypes[i][2]
               /\ HoldsAll(components', call'.entity, archetypes[i][1]))
              => /\ archetypes'[i][1] = archetypes[i][1]
                 /\ call'.entity \in DOMAIN archetypes'[i][2]
                 /\ archetypes'[i][2][call'.entity]
                      = StoreTuple(components', call'.entity, archetypes[i][1])]_vars

\* the slot-0 type of (0, 1) was registered last (type 1 first, then type 0)
\* and the entity is in the (0, 1) bucket and in the (1, 0) bucket
C9_Witness ==
    /\ call.op = "register_component"
    /\ ~call.raised
    /\ call.ret = call.component
    /\ cid(call.component) = 0
    /\ DictHas(archetypes, <<0, 1>>)
    /\ DictHas(archetypes, <<1, 0>>)
    /\ call.entity \in DOMAIN DictGet(archetypes, <<0, 1>>)
    /\ call.entity \in DOMAIN DictGet(archetypes, <<1, 0>>)
    /\ DictGet(archetypes, <<0, 1>>)[call.entity] = <<call.component, <<1, 1>>>>

\* C10: fetch_component on a live entity never raises, returns the stored
\* component or None (also for a type no entity ever registered) and changes
\* no manager state.
C10_FetchComponent ==
    [][(call'.op = "fetch_component" /\ call'.entity \in entities)
        => /\ ~call'.raised
           /\ call'.ret = IF Holds(components, call'.entity, call'.component_type)
                          THEN DictGet(components, call'.component_type)[call'.entity]
                          ELSE None
           /\ UNCHANGED manager]_vars

\* fetch_component has just returned None for a type that was never
\* registered, for an entity that holds a component of the other type
C10_Witness ==
    /\ call.op = "fetch_component"
    /\ ~call.raised
    /\ call.ret = None
    /\ ~DictHas(components, call.component_type)
    /\ \E t \in Cids : Holds(components, call.entity, t)

\* C11: deregister_component on a live entity that holds no component of
\* the type returns None and changes nothing: store, buckets and live set
\* stay as they were.
C11_DeregisterAbsent ==
    [][(/\ call'.op = "deregister_component"
        /\ call'.entity \in entities
        /\ ~Holds(components, call'.entity, call'.component_type))
        => /\ ~call'.raised
           /\ call'.ret = None
           /\ UNCHANGED manager]_vars

\* deregister_component has just returned None for a live entity and a type
\* that has no dict in the store, while the entity holds the other type
C11_Witness ==
    /\ call.op = "deregister_component"
    /\ ~call.raised
    /\ call.ret = None
    /\ call.entity \in entities
    /\ ~DictHas(components, call.component_type)
    /\ \E t \in Cids : Holds(components, call.entity, t)

\* C12: registering a system that is already registered leaves the registry,
\* every binding, the archetype keys and the contents of every bucket as
\* they were.
C12_RegisterSystemIdempotent ==
    [][(call'.op = "register_system" /\ DictHas(systems, call'.system))
        => UNCHANGED manager]_vars

\* register_system was just called for class 1, whose own bucket (1, 0)
\* holds an entity: the bucket was filled after the first registration, so
\* this call found the system registered
C12_Witness ==
    /\ call.op = "register_system"
    /\ call.system = <<1, 1>>
    /\ DictHas(systems, call.system)
    /\ DictHas(archetypes, <<1, 0>>)
    /\ DictGet(archetypes, <<1, 0>>) # <<>>

\* the archetypes bound to some action of the systems
BoundArchetypes(syss) == UNION {DictValues(syss[i][2]) : i \in DOMAIN syss}

\* C13: deregister_system of a registered system S keeps, with its full
\* membership, every bucket some action of another registered system is
\* bound to, and drops every bucket that only S's actions were bound to.
C13_DeregisterSystemBuckets ==
    [][(call'.op = "deregister_system" /\ DictHas(systems, call'.system))
        => LET others == BoundArchetypes(DictPop(systems, call'.system))
               own == DictValues(DictGet(systems, call'.system))
           IN  /\ ~DictHas(systems', call'.system)
               /\ \A i \in DOMAIN archetypes :
                     IF archetypes[i][1] \in others
                     THEN /\ DictHas(archetypes', archetypes[i][1])
                          /\ DictGet(archetypes', archetypes[i][1]) = archetypes[i][2]
                     ELSE archetypes[i][1] \in own
                              => ~DictHas(archetypes', archetypes[i][1])]_vars

\* deregister_system has just dropped a bucket and kept the shared (0, 1)
\* bucket, which holds an entity
C13_Witness ==
    /\ call.op = "deregister_system"
    /\ call.dropped # {}
    /\ systems # <<>>
    /\ DictHas(archetypes, <<0, 1>>)
    /\ DictGet(archetypes, <<0, 1>>) # <<>>

\* C14: the archetype keys of the index are exactly the archetypes bound to
\* at least one action of a registered system.
C14_KeysAreBoundArchetypes ==
    DictKeys(archetypes) = BoundArchetypes(systems)

\* a system was just deregistered, a bucket went with it, and the index
\* holds the two buckets of the system that is left
C14_Witness ==
    /\ call.op = "deregister_system"
    /\ call.dropped # {}
    /\ Len(systems) = 1
    /\ Len(archetypes) = 2

\* C15: when a bucket was dropped with its last interested system and a
\* system declaring the archetype is registered again, the new bucket holds
\* every live entity that holds a component of every type of the archetype.
C15_BucketRebuilt ==
    [][(call.op = "deregister_system" /\ call'.op = "register_system")
        => \A a \in call.dropped :
              DictHas(archetypes', a)
                  => \A e \in entities :
                        HoldsAll(components, e, a)
                            => e \in DOMAIN DictGet(archetypes', a)]_vars

\* the step invokes an action
InvokeStep == Len(invoked') = Len(invoked) + 1

\* the <<system, action>> pairs of the registry
AllActions(syss) ==
    UNION {{<<syss[i][1], a>> : a \in DictKeys(syss[i][2])} : i \in DOMAIN syss}

\* C16: once an action invoked by process returns the stop signal the loop
\* halts at once: process has returned, and no action is invoked later, in
\* that tick or in another.
C16_StopHalts ==
    [][/\ (InvokeStep /\ call'.ret = Stop) => pc' = "returned"
       /\ pc = "returned" => (pc' = "returned" /\ invoked' = invoked)]_vars

\* the first action of a tick with four actions has returned the stop
\* signal and process has returned
C16_Witness ==
    /\ pc = "returned"
    /\ call.op = "action"
    /\ call.ret = Stop
    /\ Len(invoked) = 1
    /\ Len(Schedule(archetypes, systems)) = 4

\* C17: in a tick that completes without a stop signal every action of
\* every registered system is invoked exactly once, and the rows an action
\* receives are the rows of the bucket of the archetype it is bound to.
C17_EachActionOncePerTick ==
    [][/\ (pc = "iter" /\ pc' = "tick")
            => /\ Range(invoked) = AllActions(systems)
               /\ Len(invoked) = Cardinality(AllActions(systems))
       /\ InvokeStep
            => /\ DictHas(systems, call'.system)
               /\ DictHas(DictGet(systems, call'.system), call'.action)
               /\ call'.archetype
                    = DictGet(DictGet(systems, call'.system), call'.action)
               /\ call'.components
                    = Rows(DictGet(archetypes, call'.archetype))]_vars

\* a tick of four actions is through, and the last action received a row
C17_Witness ==
    /\ pc = "tick"
    /\ Len(invoked) = 4
    /\ call.op = "action"
    /\ call.ret = Continue
    /\ call.components # <<>>

C19_NoSystemsReturns ==
    [][/\ (pc = "idle" /\ systems = <<>> /\ pc' # "idle")
            => (pc' = "returned" /\ invoked' = <<>> /\ UNCHANGED manager)
       /\ (pc = "returned" /\ systems = <<>>)
            => (pc' = "returned" /\ invoked' = <<>> /\ UNCHANGED manager)]_vars

\* process has returned with the warning while entities hold components
C19_Witness ==
    /\ pc = "returned"
    /\ systems = <<>>
    /\ call.op = "process"
    /\ call.warned
    /\ components # <<>>

\* C20: the time-scale factor is 0 or 1; pause and unpause change that
\* factor and nothing else of the manager; a tick that begins at factor 0 has
\* dt = 0, every action of the tick gets that dt, and the tick that completes
\* has invoked every registered action.
C20_PauseFreezesTime ==
    [][/\ deltatime \in {0, 1} /\ deltatime' \in {0, 1}
       /\ (InvokeStep /\ call'.effect.kind = "pause")
            => (deltatime' = 0 /\ UNCHANGED <<entity_id, entities, systems,
                                              archetypes, components, eid>>)
       /\ (InvokeStep /\ call'.effect.kind = "unpause")
            => (deltatime' = 1 /\ UNCHANGED <<entity_id, entities, systems,
                                              archetypes, components, eid>>)
       /\ (pc = "tick" /\ pc' = "iter" /\ deltatime = 0) => dt' = 0
       /\ InvokeStep => (call'.dt = dt /\ dt' = dt)
       /\ (pc = "iter" /\ pc' = "tick")
            => Range(invoked) = AllActions(systems)]_vars

\* a tick that began paused, one second after the tick before, is through:
\* four actions were invoked with dt = 0 and the manager is still paused
C20_Witness ==
    /\ pc = "tick"
    /\ deltatime = 0
    /\ elapsed = 1
    /\ dt = 0
    /\ Len(invoked) = 4
    /\ call.op = "action"
    /\ call.dt = 0

\* the systems of the registry, oldest registration first
RegistrationOrder(syss) == [i \in DOMAIN syss |-> syss[i][1]]

\* C21: setup calls the setup hook of every registered system exactly once,
\* in the order in which the systems were registered: a registration puts
\* the system last, a deregistration takes it out and keeps the order of the
\* others, nothing else reorders the registry, and setup calls the hooks in
\* the order of the registry.
C21_SetupInRegistrationOrder ==
    [][/\ call'.op = "setup"
            => /\ Len(call'.hooks) = Len(systems)
               /\ \A i \in DOMAIN systems : call'.hooks[i] = systems[i][1]
               /\ \A i, j \in DOMAIN call'.hooks :
                     call'.hooks[i] = call'.hooks[j] => i = j
       /\ (call'.op = "register_system" /\ ~DictHas(systems, call'.system))
            => RegistrationOrder(systems')
                 = Append(RegistrationOrder(systems), call'.system)
       /\ (call'.op = "register_system" /\ DictHas(systems, call'.system))
            => RegistrationOrder(systems') = RegistrationOrder(systems)
       /\ call'.op = "deregister_system"
            => RegistrationOrder(systems')
                 = SelectSeq(RegistrationOrder(systems),
                             LAMBDA s : s # call'.system)
       /\ call'.op \notin {"register_system", "deregister_system", "cleanup"}
            => RegistrationOrder(systems') = RegistrationOrder(systems)]_vars

\* setup has called the hook of the class-1 system before that of the
\* class-0 system
C21_Witness ==
    /\ call.op = "setup"
    /\ call.hooks = << <<1, 1>>, <<0, 1>> >>
    /\ entities # {}

\* C22: cleanup calls the cleanup hook of every registered system exactly
\* once, all of them before any system is deregistered, and afterwards no
\* system is registered, the archetype index is empty, no entity is live and
\* no component type's mapping holds an entity.
C22_CleanupTearsDown ==
    [][call'.op = "cleanup"
        => /\ call'.hooks = RegistrationOrder(systems)
           /\ \A i, j \in DOMAIN call'.hooks :
                 call'.hooks[i] = call'.hooks[j] => i = j
           /\ systems' = <<>>
           /\ archetypes' = <<>>
           /\ entities' = {}
           /\ \A i \in DOMAIN components' : DOMAIN components'[i][2] = {}]_vars

\* cleanup has torn down two systems and an entity that held components of
\* both types
C22_Witness ==
    /\ call.op = "cleanup"
    /\ Len(call.hooks) = 2
    /\ Len(components) = 2
    /\ entity_id > 0

\* C23: systems that declare (Transform2D, Collider2D) and (Collider2D,
\* Transform2D) get one bucket for each order, and an entity that comes to
\* hold both types by a fresh registration is put in both buckets, its tuple
\* in each bucket in the order of that bucket's archetype.
C23_OrderSensitiveKeys ==
    [][/\ call'.op = "register_system"
            => \A k \in DOMAIN actions(call'.system) :
                  LET declared == actions(call'.system)[k][2]
                      key == [j \in DOMAIN declared |-> ClassCid(declared[j])]
                  IN  /\ Cardinality({b \in DOMAIN archetypes' :
                                         archetypes'[b][1] = key}) = 1
                      /\ DictGet(systems', call'.system)[k][2] = key
       /\ (/\ call'.op = "register_component"
           /\ call'.entity \in entities
           /\ ~Holds(components, call'.entity, cid(call'.component))
           /\ DictHas(archetypes, <<0, 1>>)
           /\ DictHas(archetypes, <<1, 0>>)
           /\ HoldsAll(components', call'.entity, <<0, 1>>))
           => /\ call'.entity \in DOMAIN DictGet(archetypes', <<0, 1>>)
              /\ call'.entity \in DOMAIN DictGet(archetypes', <<1, 0>>)
              /\ DictGet(archetypes', <<0, 1>>)[call'.entity]
                   = <<DictGet(components', 0)[call'.entity],
                       DictGet(components', 1)[call'.entity]>>
              /\ DictGet(archetypes', <<1, 0>>)[call'.entity]
                   = <<DictGet(components', 1)[call'.entity],
                       DictGet(components', 0)[call'.entity]>>]_vars

\* both systems are registered, and the entity whose Collider2D was
\* registered last is in the two buckets
C23_Witness ==
    /\ Len(systems) = 2
    /\ call.op = "register_component"
    /\ ~call.raised
    /\ call.ret = call.component
    /\ cid(call.component) = 1
    /\ DictHas(archetypes, <<0, 1>>)
    /\ DictHas(archetypes, <<1, 0>>)
    /\ call.entity \in DOMAIN DictGet(archetypes, <<1, 0>>)
    /\ DictGet(archetypes, <<1, 0>>)[call.entity] = <<call.component, <<0, 2>>>>

\* C24: the eid of a component instance, once set, never changes, and it
\* names an entity under which the component store holds the instance
\* whenever the store holds the instance at all.
C24_EidNeverChanges ==
    [][/\ \A c \in DOMAIN eid : c \in DOMAIN eid' /\ eid'[c] = eid[c]
       /\ \A c \in DOMAIN eid' :
             (\E e \in EntityIds : /\ Holds(components', e, cid(c))
                                   /\ DictGet(components', cid(c))[e] = c)
             => /\ Holds(components', eid'[c], cid(c))
                /\ DictGet(components', cid(c))[eid'[c]] = c]_vars

\* C26: fetch_archetype changes no manager state; for an archetype in the
\* index it returns one tuple per entity of the bucket, the tuples of the
\* bucket; for an archetype not in the index it returns None and makes no
\* bucket.
C26_FetchArchetype ==
    [][call'.op = "fetch_archetype"
        => /\ UNCHANGED manager
           /\ IF DictHas(archetypes, call'.archetype)
              THEN LET bucket == DictGet(archetypes, call'.archetype)
                   IN  /\ ~call'.warned
                       /\ Len(call'.ret) = Cardinality(DOMAIN bucket)
                       /\ \A e \in DOMAIN bucket :
                             Cardinality({i \in DOMAIN call'.ret :
                                             call'.ret[i] = bucket[e]})
                               = Cardinality({f \in DOMAIN bucket :
                                                 bucket[f] = bucket[e]})
              ELSE /\ call'.warned
                   /\ call'.ret = None
                   /\ ~DictHas(archetypes', call'.archetype)]_vars

\* fetch_archetype has returned the tuples of a bucket of two entities
C26_Witness ==
    /\ call.op = "fetch_archetype"
    /\ ~call.warned
    /\ Len(call.ret) = 2
    /\ call.archetype = <<0, 1>>

\* C25: a system is identified by its sid: registering a system object whose
\* sid a registered system already has changes nothing, so no two systems
\* of the registry have the same sid and no action is bound twice.
C25_OneSystemPerSid ==
    [][/\ (/\ call'.op = "register_system"
           /\ \E i \in DOMAIN systems : sid(systems[i][1]) = sid(call'.system))
            => UNCHANGED manager
       /\ \A i, j \in DOMAIN systems' :
             sid(systems'[i][1]) = sid(systems'[j][1]) => i = j]_vars

\* C30: loading the persisted state never raises; the loaded state is valid
\* only if the file is a JSON object whose score and lives are both present
\* and not null, and then the game starts with them; in every other case
\* the state is absent and the game starts with the default score and lives.
C30_LoadGamestate ==
    [][call'.op = "load_game"
        => LET file == call'.file
               present == /\ file.t = "json"
                          /\ file.d.t = "dict"
                          /\ file.d.score \notin {Absent, PyNone}
                          /\ file.d.lives \notin {Absent, PyNone}
           IN  /\ ~call'.raised
               /\ gamestate_is_valid(call'.state) => present
               /\ ~present
                    => /\ call'.state = PyNone
                       /\ call'.start_game = <<DefaultScore, DefaultLives>>
               /\ ~gamestate_is_valid(call'.state)
                    => call'.start_game = <<DefaultScore, DefaultLives>>
               /\ gamestate_is_valid(call'.state)
                    => /\ call'.state.score.t = "int"
                       /\ call'.state.lives.t = "int"
                       /\ call'.start_game
                            = <<call'.state.score.v, call'.state.lives.v>>]_vars

\* a state file without the lives field has been loaded and the game has
\* started with the defaults
C30_Witness ==
    /\ call.op = "load_game"
    /\ call.file.t = "json"
    /\ call.file.d.t = "dict"
    /\ call.file.d.score = [t |-> "int", v |-> 3]
    /\ call.file.d.lives = Absent
    /\ call.state = PyNone
    /\ call.start_game = <<DefaultScore, DefaultLives>>


\* ------------------------------------------------- the game's systems: claims
\* the (Transform2D, Collider2D) bucket
ColliderBucket ==
    DictGet(archetypes, <<ClassCid("Transform2D"), ClassCid("Collider2D")>>)

\* the boxes of the rows of a and b in the bucket overlap
Overlapping(a, b) ==
    do_intersect(fields[ColliderBucket[a][1]], fields[ColliderBucket[a][2]],
                 fields[ColliderBucket[b][1]], fields[ColliderBucket[b][2]])

\* b is a bullet and o a non-bullet with lives, both in the bucket, and
\* their boxes overlap
Hits(b, o) ==
    /\ b \in DOMAIN ColliderBucket
    /\ o \in DOMAIN ColliderBucket
    /\ b # o
    /\ Holds(components, b, ClassCid("BulletTag"))
    /\ ~Holds(components, o, ClassCid("BulletTag"))
    /\ Holds(components, o, ClassCid("Lives"))
    /\ Overlapping(b, o)

\* exactly one of the two carries the player tag, or exactly one of the two
\* carries the enemy tag
TagsApart(b, o) ==
    \/ Holds(components, b, ClassCid("PlayerTag"))
           # Holds(components, o, ClassCid("PlayerTag"))
    \/ Holds(components, b, ClassCid("EnemyTag"))
           # Holds(components, o, ClassCid("EnemyTag"))

LivesOf(o) == DictGet(components, ClassCid("Lives"))[o]

ColliderStep == InvokeStep /\ call'.system = Collider2DSystem

\* C27 as stated: a run of the collision action takes one life from every
\* non-bullet with lives that overlaps a bullet and marks the bullet stale,
\* whatever other tags the two carry
C27_DamageWhateverTheTags ==
    [][ColliderStep =>
        \A b \in entities, o \in entities :
            Hits(b, o) =>
                /\ fields'[LivesOf(o)] = fields[LivesOf(o)] - 1
                /\ Holds(components', b, ClassCid("StaleTag"))]_vars

\* C27 amended: a run of the collision action takes from every non-bullet
\* with lives one life for each bullet that overlaps it and whose player or
\* enemy tag differs from its own, and marks each such bullet stale; a
\* bullet that overlaps only non-bullets with the same player and enemy tags
\* is not marked
C27_DamageWhenTagsDiffer ==
    [][ColliderStep =>
        /\ \A o \in entities :
               (Holds(components, o, ClassCid("Lives"))
                    /\ ~Holds(components, o, ClassCid("BulletTag"))) =>
                   fields'[LivesOf(o)] = fields[LivesOf(o)]
                       - Cardinality({b \in entities :
                                         Hits(b, o) /\ TagsApart(b, o)})
        /\ \A b \in entities :
               IF \E o \in entities : Hits(b, o) /\ TagsApart(b, o)
               THEN Holds(components', b, ClassCid("StaleTag"))
               ELSE Holds(components', b, ClassCid("StaleTag"))
                        = Holds(components, b, ClassCid("StaleTag"))]_vars

\* the collision action has just taken the only life of a non-bullet and
\* marked the bullet that hit it
C27_Witness ==
    /\ call.op = "action"
    /\ call.system = Collider2DSystem
    /\ \E b \in entities, o \in entities :
           /\ Hits(b, o)
           /\ TagsApart(b, o)
           /\ Holds(components, b, ClassCid("StaleTag"))
           /\ fields[LivesOf(o)] = 0

PurgeStep ==
    /\ InvokeStep
    /\ call'.system = Render2DSystem
    /\ call'.action = "process_stale"

\* C28: every run of the purge action destroys the entities of the stale
\* bucket without raising, and leaves no live entity with the stale marker
\* and the stale bucket empty; an entity that carries the marker when a tick
\* starts is not live when that tick ends
C28_StalePurgedWithinATick ==
    [][/\ PurgeStep =>
              /\ ~call'.raised
              /\ \A e \in entities' :
                     ~Holds(components', e, ClassCid("StaleTag"))
              /\ DOMAIN DictGet(archetypes', <<ClassCid("StaleTag")>>) = {}
              /\ entities' = {e \in entities :
                                 ~Holds(components, e, ClassCid("StaleTag"))}
       /\ (pc = "iter" /\ pc' = "tick") =>
              started.stale \cap entities' = {}]_vars

\* a tick has ended that began with a marked entity, which is gone
C28_Witness ==
    /\ pc = "tick"
    /\ call.op = "action"
    /\ started.stale # {}
    /\ started.stale \cap entities = {}

\* C29: once the handler has run, the next invocation of the input action
\* returns Stop and process returns, with or without rows; a tick that began
\* after the handler ran does not end; nothing is invoked after process has
\* returned
C29_HaltsAtTheInputAction ==
    [][/\ (InvokeStep /\ call'.system = UserInputSystem /\ continuation = Stop)
              => (call'.ret = Stop /\ pc' = "returned")
       /\ (pc = "iter" /\ pc' = "tick") => started.continuation = Continue
       /\ pc = "returned" => (invoked' = invoked /\ pc' = "returned")]_vars

\* the window was closed and process has returned from the input action,
\* which had no rows
C29_Witness ==
    /\ pc = "returned"
    /\ call.op = "action"
    /\ call.system = UserInputSystem
    /\ call.components = <<>>
    /\ call.ret = Stop
    /\ continuation = Stop


\* ------------------------------------------------- the high-score table: claims
\* the score the merged table gives a name: the loaded one, or for the
\* player of the finished game the higher of the loaded one and the game's
MergedScore(c, name) ==
    IF name = c.name
    THEN Max2(c.score, IF DictHas(c.loaded, name) THEN DictGet(c.loaded, name) ELSE 0)
    ELSE DictGet(c.loaded, name)

MergedNames(c) == DictKeys(c.loaded) \cup {c.name}

\* C31: the saved table has at most 10 rows, one per name, each a row of the
\* loaded table merged with the game's result; it has 10 rows when the
\* merged table has 10 or more, all of them otherwise; and no name left out
\* has a strictly higher score than a name kept
C31_TenHighestSaved ==
    [][call'.op = "start_game" =>
        LET c == call'
            kept == DictKeys(c.saved)
        IN  /\ Len(c.saved) <= 10
            /\ \A i \in DOMAIN c.saved, j \in DOMAIN c.saved :
                   c.saved[i][1] = c.saved[j][1] => i = j
            /\ \A i \in DOMAIN c.saved :
                   /\ c.saved[i][1] \in MergedNames(c)
                   /\ c.saved[i][2] = MergedScore(c, c.saved[i][1])
            /\ Len(c.saved) = IF Cardinality(MergedNames(c)) < 10
                              THEN Cardinality(MergedNames(c)) ELSE 10
            /\ \A left \in MergedNames(c) \ kept, k \in kept :
                   MergedScore(c, left) <= MergedScore(c, k)]_vars

\* a game ended with eleven names to rank, and a name with a lower score
\* than the finished game's was left out
C31_Witness ==
    /\ call.op = "start_game"
    /\ Cardinality(MergedNames(call)) = 11
    /\ Len(call.saved) = 10
    /\ call.name \in DictKeys(call.saved)
    /\ \E left \in MergedNames(call) \ DictKeys(call.saved) :
           MergedScore(call, left) < MergedScore(call, call.name)


\* C32: after a register_component that does not replace, the entity is in
\* every bucket of the index whose types it all holds, those created after
\* its earlier components were registered included
C32_FreshRegistrationJoinsEveryBucket ==
    [][(/\ call'.op = "register_component"
        /\ ~call'.raised
        /\ ~Holds(components, call'.entity, cid(call'.component)))
        => \A i \in DOMAIN archetypes' :
               HoldsAll(components', call'.entity, archetypes'[i][1])
                   => call'.entity \in DOMAIN archetypes'[i][2]]_vars

\* a fresh registration has added the entity to a bucket whose archetype
\* does not name the type just registered: the entity held that bucket's
\* types before the bucket was created
C32_Witness ==
    /\ call.op = "register_component"
    /\ ~call.raised
    /\ "added" \in DOMAIN call
    /\ \E archetype \in call.added :
           /\ \A idx \in DOMAIN archetype : archetype[idx] # cid(call.component)
           /\ call.entity \in DOMAIN DictGet(archetypes, archetype)


\* C33: a register_component that replaces changes the store entry of that
\* type and entity and the back-reference of the new component, and nothing
\* else: not the live set, the entities of any bucket, any other store
\* entry, any other back-reference or the system registry
C33_ReplacementFrame ==
    [][(/\ call'.op = "register_component"
        /\ ~call'.raised
        /\ Holds(components, call'.entity, cid(call'.component)))
        => LET E == call'.entity
               t == cid(call'.component)
           IN  /\ entities' = entities
               /\ entity_id' = entity_id
               /\ systems' = systems
               /\ DictKeys(archetypes') = DictKeys(archetypes)
               /\ \A i \in DOMAIN archetypes :
                      DOMAIN archetypes'[i][2] = DOMAIN archetypes[i][2]
               /\ DictKeys(components') = DictKeys(components)
               /\ \A u \in DictKeys(components) :
                      /\ DOMAIN DictGet(components', u) = DOMAIN DictGet(components, u)
                      /\ \A e \in DOMAIN DictGet(components, u) :
                             (u # t \/ e # E) =>
                                 DictGet(components', u)[e] = DictGet(components, u)[e]
               /\ DictGet(components', t)[E] = call'.component
               /\ \A c \in DOMAIN eid : c # call'.component => eid'[c] = eid[c]]_vars

\* a component has been replaced by another instance while a second entity
\* holds a component of the same type and the first entity is in a bucket
C33_Witness ==
    /\ call.op = "register_component"
    /\ ~call.raised
    /\ call.ret # call.component
    /\ \E e \in entities \ {call.entity} : Holds(components, e, cid(call.component))
    /\ \E i \in DOMAIN archetypes : call.entity \in DOMAIN archetypes[i][2]


\* C34: in every reachable state, every entity that is a key of a bucket or
\* of a component type's mapping is live, and every entity of a bucket
\* holds a component of every type of the bucket's archetype
C34_BucketSoundness ==
    /\ \A i \in DOMAIN archetypes :
           \A e \in DOMAIN archetypes[i][2] :
               /\ e \in entities
               /\ \A idx \in DOMAIN archetypes[i][1] :
                      /\ DictHas(components, archetypes[i][1][idx])
                      /\ e \in DOMAIN DictGet(components, archetypes[i][1][idx])
    /\ \A j \in DOMAIN components :
           DOMAIN components[j][2] \subseteq entities

\* an entity that held two components has been destroyed while the other
\* entity stays in a bucket
C34_Witness ==
    /\ call.op = "destroy_entity"
    /\ ~call.raised
    /\ Len(call.ret) = 2
    /\ \E i \in DOMAIN archetypes : DOMAIN archetypes[i][2] # {}


\* the index of key k in the dict d: keys are in insertion order
KeyPos(d, k) == CHOOSE i \in DOMAIN d : d[i][1] = k

\* <<position of the action's archetype in the archetype index, position of
\* its system in the registry, position of the action in the system's table>>
InvocationRank(inv) ==
    <<KeyPos(archetypes, DictGet(DictGet(systems, inv[1]), inv[2])),
      KeyPos(systems, inv[1]),
      KeyPos(DictGet(systems, inv[1]), inv[2])>>

\* C35: the actions invoked so far in a tick are in the order of bucket
\* creation of their archetypes, those of one archetype in the order of
\* registration of their systems, and those of one system and archetype in
\* the order of the system's table
C35_GroupedByArchetype ==
    \A i \in DOMAIN invoked, j \in DOMAIN invoked :
        i < j =>
            LET a == InvocationRank(invoked[i])
                b == InvocationRank(invoked[j])
            IN  \/ a[1] < b[1]
                \/ a[1] = b[1] /\ a[2] < b[2]
                \/ a[1] = b[1] /\ a[2] = b[2] /\ a[3] < b[3]

\* in this tick an action of the system registered first was invoked after
\* an action of the system registered second
C35_Witness ==
    /\ pc = "iter"
    /\ \E i \in DOMAIN invoked, j \in DOMAIN invoked :
           /\ i < j
           /\ KeyPos(systems, invoked[i][1]) = 2
           /\ KeyPos(systems, invoked[j][1]) = 1


\* C36: the rows an action holds when it returns are the rows the bucket of
\* its archetype had when the action was invoked, whatever the action did
\* to the bucket; they are the rows of the bucket as the actions invoked
\* before it in the tick left it
C36_RowsAreASnapshot ==
    [][InvokeStep =>
        LET bucket == DictGet(archetypes, call'.archetype)
        IN  /\ call'.components = Rows(bucket)
            /\ Len(call'.components) = Cardinality(DOMAIN bucket)
            /\ \A e \in DOMAIN bucket :
                   \E i \in DOMAIN call'.components : call'.components[i] = bucket[e]]_vars

\* an action has destroyed an entity of its own bucket: it holds two rows
\* and the bucket holds one entity
C36_Witness ==
    /\ pc = "iter"
    /\ call.op = "action"
    /\ call.effect.kind = "destroy_entity"
    /\ Len(call.components) = 2
    /\ Cardinality(DOMAIN DictGet(archetypes, call.archetype)) = 1

\* the control events and, for a direction, the opposite direction
Events ==
    {"left", "right", "up", "down", "fire_primary", "fire_secondary", "menu",
     "boss"}

Opposites ==
    {<<"left", "right">>, <<"right", "left">>, <<"up", "down">>, <<"down", "up">>}

\* the bit of the event is set in the bitmask
BitSet(bitmask, event) == (bitmask \div input_masks(event)) % 2 = 1

\* C40: the input bitmask stays within 8 bits and never holds both left and
\* right nor both up and down; a press of a bound key sets the bit of its
\* event, clears the bit of the opposite direction and leaves the other bits
\* alone; a release clears the bit of its event and leaves every other bit
\* alone; a key that is not bound changes nothing
C40_BitmaskStaysConsistent ==
    [][/\ input'.input_bitmask \in 0..255
       /\ \A o \in Opposites :
              ~(BitSet(input'.input_bitmask, o[1]) /\ BitSet(input'.input_bitmask, o[2]))
       /\ (call'.op \in {"handle_key_pressed", "handle_key_released"}
           /\ ~HasBinding(call'.keysym)) => input' = input
       /\ (call'.op = "handle_key_pressed" /\ HasBinding(call'.keysym)) =>
              \A e \in Events :
                  BitSet(input'.input_bitmask, e) =
                      IF e = Binding(call'.keysym) THEN TRUE
                      ELSE IF <<Binding(call'.keysym), e>> \in Opposites THEN FALSE
                      ELSE BitSet(input.input_bitmask, e)
       /\ (call'.op = "handle_key_released" /\ HasBinding(call'.keysym)) =>
              \A e \in Events :
                  BitSet(input'.input_bitmask, e) =
                      (e # Binding(call'.keysym) /\ BitSet(input.input_bitmask, e))]_vars

\* the key of left is released, by its upper case, after the key of right
\* had cleared left: right, up and the two pause keys stay down
C40_Witness ==
    /\ call.op = "handle_key_released"
    /\ call.keysym = "A"
    /\ input.input_bitmask = 2 + 4 + 64 + 128

\* C37: while the loop runs the game's systems, no action raises for an
\* entity that is not live: no invocation ends in the exception
\* fetch_component, register_component, deregister_component and
\* destroy_entity raise for an unknown entity
C37_NoActionMeetsADestroyedEntity ==
    (call.op = "action") => ~call.raised

\* the step invokes the action of the input system
InputStep == InvokeStep /\ call'.system = UserInputSystem

\* the step begins a tick
TickStartStep == pc = "tick" /\ pc' = "iter"

\* C38: from the game over on (the life system has found the player with no
\* life left and has opened the game over window) the time-scale factor is
\* 0 and every tick begins with a dt of 0, whatever keys are pressed; the
\* input action is invoked with no row, the player being destroyed before,
\* and changes neither the factor nor its pause state nor the overlays
C38_GameOverStaysPaused ==
    [][/\ screen'.gameover => deltatime' = 0
       /\ (screen.gameover /\ TickStartStep) => dt' = 0
       /\ (screen.gameover /\ InputStep) =>
              /\ Player \notin entities
              /\ call'.components = <<>>
              /\ input' = input
              /\ screen' = screen
       /\ screen.gameover => screen'.gameover]_vars

\* after the game over the input action has been invoked with the menu key
\* down and free to toggle: the player is gone and the factor is still 0
C38_Witness ==
    /\ screen.gameover
    /\ call.op = "action"
    /\ call.system = UserInputSystem
    /\ call.components = <<>>
    /\ check_mask(input, "menu")
    /\ input.can_toggle_menu_key
    /\ ~input.currently_paused
    /\ Player \notin entities
    /\ deltatime = 0
    /\ pc = "iter"

\* the key of the control event is down and its cooldown is over
CanToggle(in, event) ==
    /\ check_mask(in, event)
    /\ IF event = "menu" THEN in.can_toggle_menu_key ELSE in.can_toggle_boss_key

\* the overlay of the control event is shown
Shown(scr, event) ==
    IF event = "menu" THEN scr.menu_shown ELSE scr.boss_image_shown

\* C39: whatever menu and boss keys are pressed and released between the
\* ticks, the pause menu and the boss image are never both shown; while one
\* is shown the time-scale factor is 0; the factor goes back to 1 only in an
\* invocation of the input action that finds the key that began the pause
\* down, and that invocation hides the overlay of that key; an invocation
\* that finds the simulation paused and the key that began the pause not
\* down (or in its cooldown) changes neither the factor nor the pause state
\* nor an overlay, whether the other key is down or not
C39_OnePauseAtATime ==
    [][/\ ~(screen'.menu_shown /\ screen'.boss_image_shown)
       /\ (screen'.menu_shown \/ screen'.boss_image_shown) => deltatime' = 0
       /\ (deltatime = 0 /\ deltatime' = 1) =>
              /\ InputStep
              /\ input.currently_paused
              /\ CanToggle(input, input.pause_initiator)
              /\ Shown(screen, input.pause_initiator)
              /\ ~Shown(screen', input.pause_initiator)
              /\ ~input'.currently_paused
       /\ (InputStep /\ input.currently_paused
           /\ ~CanToggle(input, input.pause_initiator)) =>
              /\ deltatime' = deltatime
              /\ input' = input
              /\ screen' = screen]_vars

\* the input action has been invoked for the player while the menu key had
\* paused the game and the boss key alone was down, free to toggle: the
\* menu is still shown, the boss image is not, the factor is 0
C39_Witness ==
    /\ call.op = "action"
    /\ call.system = UserInputSystem
    /\ call.components # <<>>
    /\ pc = "iter"
    /\ input.currently_paused
    /\ input.pause_initiator = "menu"
    /\ check_mask(input, "boss")
    /\ input.can_toggle_boss_key
    /\ ~check_mask(input, "menu")
    /\ screen.menu_shown
    /\ ~screen.boss_image_shown
    /\ deltatime = 0

====
